---- MODULE Spec2Model ----
(***************************************************************************)
(* Model of the AI-Secretary workflow: the useWorkflowManager hook (the    *)
(* orchestrator), the meeting-history store (lib/memory), the              *)
(* create-jira-tasks route with the Jira client, and the ingest routes.    *)
(*                                                                         *)
(* Texts that the code trims or compares are sequences of one-character    *)
(* strings (<<"a", " ">> is "a "); messages the code only passes along are *)
(* plain strings.  null and undefined are the tuples Null and Undefined;   *)
(* a number where a text is expected is <<"number", t>> with t what        *)
(* String(value) gives ("5", "1.5", "NaN", "Infinity", "-Infinity").       *)
(* Where a list of texts is expected, a string is <<"typeof string">>      *)
(* followed by its text, and a call that threw a TypeError is              *)
(* <<"throws TypeError">> followed by the message of the error.  Where a   *)
(* text is expected, a call that threw is <<"throws TypeError", message>>; *)
(* where a record is expected it is the error (JsError), and where a list  *)
(* of records is expected it is the list holding the error alone.          *)
(***************************************************************************)
EXTENDS Naturals, Integers, Sequences, FiniteSets, TLC

\* ------------------------------------------------------------------ bounds
MaxStarts == 2
MaxSyncs == 1
MaxTasks == 2
MaxInFlight == 2
\* recording files in an answer of the Zoom API
MaxFiles == 2
\* labels of a task found in localStorage
MaxLabels == 3

\* ------------------------------------------------------- program constants
HISTORY_LIMIT == 10
PREVIEW_LIMIT == 280

\* null and undefined for a text
Null == <<"null">>
Undefined == <<"undefined">>
\* undefined for a list of texts, for a list of records, null for a record
UndefinedTexts == <<Undefined>>
UndefinedList == <<[undefined |-> TRUE]>>
NullRecord == [null |-> TRUE]
\* localStorage.getItem returning null: nothing stored under the key
NullBlob == <<NullRecord>>
\* localStorage that cannot be used: absent (isBrowser() is false), throwing
\* on every access, or holding a text JSON.parse rejects
UnavailableBlob == <<[storage |-> "unavailable"]>>
ThrowingBlob == <<[storage |-> "throws"]>>
UnparsableBlob == <<[storage |-> "unparsable"]>>
\* activeMeetingId === null
NoId == 0
\* null for a message
NullMessage == "null"

\* ------------------------------------------------------------ text helpers
IsSpace(c) == c = " "

RECURSIVE TrimStart(_)
TrimStart(s) ==
  IF s # <<>> /\ IsSpace(Head(s)) THEN TrimStart(Tail(s)) ELSE s

RECURSIVE TrimEnd(_)
TrimEnd(s) ==
  IF s # <<>> /\ IsSpace(s[Len(s)]) THEN TrimEnd(SubSeq(s, 1, Len(s) - 1)) ELSE s

\* String.prototype.trim
Trim(s) == TrimEnd(TrimStart(s))

\* label.replace(/\s+/g, "-")
RECURSIVE ReplaceSpaceRuns(_)
ReplaceSpaceRuns(s) ==
  IF s = <<>> THEN <<>>
  ELSE IF IsSpace(Head(s)) THEN <<"-">> \o ReplaceSpaceRuns(TrimStart(s))
  ELSE <<Head(s)>> \o ReplaceSpaceRuns(Tail(s))

\* Array.isArray(value) where a list of texts is expected
isArray(value) ==
  value # UndefinedTexts /\ ~(Len(value) = 2 /\ value[1] = <<"typeof string">>)

\* typeof v === "string"
IsText(v) == v # Null /\ v # Undefined /\ ~(Len(v) = 2 /\ v[1] = "number")

\* ------------------------------------------------------ lib/memory (store)
\* normaliseString: a trimmed non-empty text, String(value) for a finite
\* number, else null
normaliseString(value) ==
  IF IsText(value)
  THEN IF Trim(value) # <<>> THEN Trim(value) ELSE Null
  ELSE IF Len(value) = 2 /\ value[1] = "number"
          /\ value[2] \notin {"NaN", "Infinity", "-Infinity"}
  THEN <<value[2]>>
  ELSE Null

\* a JavaScript error object: the name of its class and its message
JsError(name, message) == [threw |-> TRUE, name |-> name, message |-> message]

\* (x ?? d)
OrElse(x, d) == IF x = Null \/ x = Undefined THEN d ELSE x

\* createPreview: trimmed, cut to 280 characters plus the marker;
\* transcript.trim() throws on a value that is no string
createPreview(transcript) ==
  IF transcript = Null
  THEN <<"throws TypeError", "Cannot read properties of null (reading 'trim')">>
  ELSE IF transcript = Undefined
  THEN <<"throws TypeError", "Cannot read properties of undefined (reading 'trim')">>
  ELSE IF ~IsText(transcript)
  THEN <<"throws TypeError", "transcript.trim is not a function">>
  ELSE LET trimmed == Trim(transcript)
       IN IF Len(trimmed) <= PREVIEW_LIMIT THEN trimmed
          ELSE SubSeq(trimmed, 1, PREVIEW_LIMIT) \o <<"...">>

RECURSIVE Dedup(_, _)
Dedup(seq, seen) ==
  IF seq = <<>> THEN <<>>
  ELSE IF Head(seq) \in seen THEN Dedup(Tail(seq), seen)
  ELSE <<Head(seq)>> \o Dedup(Tail(seq), seen \cup {Head(seq)})

\* mutant: the labels are compared without regard to case
sanitiseLabels_IgnoresCase(value) ==
  IF ~isArray(value) THEN <<>>
  ELSE LET trimmed == [i \in 1..Len(value) |->
                         IF IsText(value[i]) THEN Trim(value[i]) ELSE <<>>]
           kept == SelectSeq(trimmed, LAMBDA l : l # <<>>)
           joined == [i \in 1..Len(kept) |-> ReplaceSpaceRuns(kept[i])]
           lower == [i \in 1..Len(joined) |->
                       [j \in 1..Len(joined[i]) |->
                          IF joined[i][j] = "Bug" THEN "bug" ELSE joined[i][j]]]
       IN Dedup(lower, {})

\* sanitiseLabels: an element that is not a string counts as "", then
\* trim, drop empty, join whitespace runs, drop duplicates (new Set keeps
\* the first occurrence)
sanitiseLabels(value) ==
  IF ~isArray(value) THEN <<>>
  ELSE LET trimmed == [i \in 1..Len(value) |->
                         IF IsText(value[i]) THEN Trim(value[i]) ELSE <<>>]
           kept == SelectSeq(trimmed, LAMBDA l : l # <<>>)
           joined == [i \in 1..Len(kept) |-> ReplaceSpaceRuns(kept[i])]
       IN Dedup(joined, {})

\* clampConfidence.  A confidence is a record: type is what typeof gives
\* ("NaN" for the number NaN), tenths is the number counted in tenths, so
\* that 1 is 10 tenths
clampConfidence(value) ==
  IF value.type # "number" THEN [type |-> "number", tenths |-> 0]
  ELSE IF value.tenths < 0 THEN [type |-> "number", tenths |-> 0]
  ELSE IF value.tenths > 10 THEN [type |-> "number", tenths |-> 10]
  ELSE value

\* sanitiseActionItem; an item without assignee has candidate.assignee
\* undefined (source, due and priority, which go through normaliseString
\* like the assignee and which no item here carries, are left out)
sanitiseActionItem(raw) ==
  [summary |-> OrElse(normaliseString(raw.summary), <<>>),
   confidence |-> clampConfidence(raw.confidence),
   assignee |-> normaliseString(IF "assignee" \in DOMAIN raw THEN raw.assignee
                                ELSE Undefined),
   labels |-> sanitiseLabels(raw.labels)]

\* sanitiseMetadata: entries with an empty value are dropped; undefined if none
sanitiseMetadata(metadata) ==
  IF metadata = UndefinedList THEN UndefinedList
  ELSE LET norm == [i \in 1..Len(metadata) |->
                      [key |-> metadata[i].key, value |-> normaliseString(metadata[i].value)]]
           entries == SelectSeq(norm, LAMBDA e : e.value # Null)
       IN IF entries = <<>> THEN UndefinedList ELSE entries

\* sanitiseJiraResult: null when the summary is empty after trimming
sanitiseJiraResult(raw) ==
  LET summary == OrElse(normaliseString(raw.summary), <<>>)
  IN IF summary = <<>> THEN NullRecord
     ELSE [summary |-> summary,
           success |-> raw.success,
           issueKey |-> OrElse(normaliseString(raw.issueKey), Undefined),
           issueUrl |-> OrElse(normaliseString(raw.issueUrl), Undefined),
           error |-> OrElse(normaliseString(raw.error), Undefined)]

\* sanitiseJiraResults: undefined when not a list or when nothing is left
sanitiseJiraResults(raw) ==
  IF raw = UndefinedList THEN UndefinedList
  ELSE LET mapped == [i \in 1..Len(raw) |-> sanitiseJiraResult(raw[i])]
           results == SelectSeq(mapped, LAMBDA r : r # NullRecord)
       IN IF results # <<>> THEN results ELSE UndefinedList

\* sanitiseMeetingSummary (the fallbacks for id and createdAt are never
\* needed here: every record carries both); UndefinedList stands for tasks
\* that are not a list.  The stored preview is given to createPreview as it
\* is: when it is no string the TypeError of createPreview leaves the
\* function, which returns no record
sanitiseMeetingSummary(raw) ==
  LET summary(transcript, preview) ==
        IF Len(preview) = 2 /\ preview[1] = "throws TypeError"
        THEN JsError("TypeError", <<preview[2]>>)
        ELSE [id |-> raw.id,
              source |-> IF raw.source \in {"upload", "zoom", "google"} THEN raw.source
                         ELSE "upload",
              createdAt |-> raw.createdAt,
              transcript |-> transcript,
              transcriptPreview |-> preview,
              tasks |-> IF raw.tasks = UndefinedList THEN <<>>
                        ELSE [i \in 1..Len(raw.tasks) |-> sanitiseActionItem(raw.tasks[i])],
              metadata |-> sanitiseMetadata(raw.metadata),
              jiraResults |-> sanitiseJiraResults(raw.jiraResults)]
      withTranscript(transcript) ==
        summary(transcript, createPreview(OrElse(raw.transcriptPreview, transcript)))
  IN withTranscript(OrElse(normaliseString(raw.transcript), <<>>))

\* list.map((item) => sanitiseMeetingSummary(item)): the first record that
\* makes sanitiseMeetingSummary throw ends the map with its error
SanitiseAll(list) ==
  LET firstThrown(mapped) ==
        LET thrown == {i \in 1..Len(mapped) : "threw" \in DOMAIN mapped[i]}
        IN IF thrown = {} THEN mapped
           ELSE <<mapped[CHOOSE i \in thrown : \A j \in thrown : i <= j]>>
  IN firstThrown([i \in 1..Len(list) |-> sanitiseMeetingSummary(list[i])])

\* mutant: the cut keeps the end of the list, so the newest record goes
Take_KeepsTail(seq, n) ==
  IF Len(seq) <= n THEN seq ELSE SubSeq(seq, Len(seq) - n + 1, Len(seq))

\* slice(0, n)
Take(seq, n) == IF Len(seq) <= n THEN seq ELSE SubSeq(seq, 1, n)

\* readRawHistory: [] when the storage is absent, when nothing is stored
\* and when getItem or JSON.parse throws
readRawHistory(blob) ==
  IF blob \in {NullBlob, UnavailableBlob, ThrowingBlob, UnparsableBlob} THEN <<>> ELSE blob

\* loadMeetingHistory applied to the stored blob (null: nothing stored);
\* the records are sanitised before the list is cut, and an error of the
\* map is not caught
loadMeetingHistory(blob) ==
  Take(SanitiseAll(readRawHistory(blob)), HISTORY_LIMIT)

\* createMeetingSummary; id and createdAt come from the clock.  The preview
\* is made of the transcript before the record is sanitised
createMeetingSummary(source, transcript, tasks, metadata, now) ==
  LET summary(preview) ==
        IF Len(preview) = 2 /\ preview[1] = "throws TypeError"
        THEN JsError("TypeError", <<preview[2]>>)
        ELSE sanitiseMeetingSummary(
               [id |-> now,
                source |-> source,
                createdAt |-> now,
                transcript |-> transcript,
                transcriptPreview |-> preview,
                tasks |-> [i \in 1..Len(tasks) |-> sanitiseActionItem(tasks[i])],
                metadata |-> sanitiseMetadata(metadata),
                jiraResults |-> UndefinedList])
  IN summary(createPreview(transcript))

\* mutant: the new record is put in front without removing its duplicate
persistMeetingSummary_KeepsDuplicate(summary, existingHistory) ==
  LET next(baseHistory, sanitisedSummary) ==
        IF baseHistory # <<>> /\ "threw" \in DOMAIN baseHistory[1] THEN baseHistory
        ELSE IF "threw" \in DOMAIN sanitisedSummary THEN <<sanitisedSummary>>
        ELSE Take(<<sanitisedSummary>> \o baseHistory, HISTORY_LIMIT)
  IN next(SanitiseAll(existingHistory), sanitiseMeetingSummary(summary))

\* persistMeetingSummary: the history that is returned and written; an
\* error of sanitiseMeetingSummary leaves the function before anything is
\* written
persistMeetingSummary(summary, existingHistory) ==
  LET next(baseHistory, sanitisedSummary) ==
        IF baseHistory # <<>> /\ "threw" \in DOMAIN baseHistory[1] THEN baseHistory
        ELSE IF "threw" \in DOMAIN sanitisedSummary THEN <<sanitisedSummary>>
        ELSE LET withoutDuplicate ==
                   SelectSeq(baseHistory,
                             LAMBDA item : ~(item.source = sanitisedSummary.source
                                             /\ item.transcript = sanitisedSummary.transcript))
             IN Take(<<sanitisedSummary>> \o withoutDuplicate, HISTORY_LIMIT)
  IN next(SanitiseAll(existingHistory), sanitiseMeetingSummary(summary))

\* mutant: the updated record is computed but the old one is kept
replaceMeetingSummary_KeepsOld(id, results, existingHistory) ==
  SanitiseAll(existingHistory)

\* replaceMeetingSummary with the updater of updateHistoryWithJira
\* ({...summary, jiraResults: results}); an error of sanitiseMeetingSummary
\* leaves the function before anything is written
replaceMeetingSummary(id, results, existingHistory) ==
  LET next(baseHistory) ==
        IF baseHistory # <<>> /\ "threw" \in DOMAIN baseHistory[1] THEN baseHistory
        ELSE [i \in 1..Len(baseHistory) |->
                IF baseHistory[i].id # id THEN baseHistory[i]
                ELSE sanitiseMeetingSummary([baseHistory[i] EXCEPT !.jiraResults = results])]
  IN next(SanitiseAll(existingHistory))

\* mutant: without a usable storage nothing is returned
writeHistory_EmptyWithoutStorage(blob, list) ==
  IF blob = UnavailableBlob THEN <<>> ELSE list

\* writeHistory: the history it returns, whatever becomes of the write
writeHistory(blob, list) == list

\* what localStorage holds after the setItem of writeHistory: the written
\* list (JSON.stringify keeps the records as they are, an undefined field is
\* dropped and reads back as undefined), or what it held when the storage
\* is absent or setItem throws
StoredAfterWrite(blob, list) ==
  IF blob \in {UnavailableBlob, ThrowingBlob} THEN blob ELSE list

\* mutant: removeItem is not called
clearMeetingHistory_KeepsBlob(blob) == blob

\* what localStorage holds after clearMeetingHistory
clearMeetingHistory(blob) ==
  IF blob \in {UnavailableBlob, ThrowingBlob} THEN blob ELSE NullBlob

\* ------------------------------------------------------------------ inputs
Transcripts == {<<"t">>, <<"u">>}

RECURSIVE SeqsUpTo(_, _)
SeqsUpTo(S, n) ==
  IF n = 0 THEN {<<>>}
  ELSE LET shorter == SeqsUpTo(S, n - 1)
       IN shorter \cup {Append(q, x) : q \in {t \in shorter : Len(t) = n - 1}, x \in S}

\* what the NLP service answers: labels may be missing, a summary may be
\* blank or carry surrounding whitespace, a confidence may be 1.7 or a text;
\* a summary may be null and a label may be null; a task may come with an
\* assignee, which may be a number
RawTaskLists ==
  SeqsUpTo({[summary |-> <<"a", " ">>, confidence |-> [type |-> "number", tenths |-> 17],
             labels |-> UndefinedTexts],
            [summary |-> <<" ">>, confidence |-> [type |-> "string", tenths |-> 0],
             labels |-> << <<"x">> >>]}, MaxTasks)
    \cup {<<[summary |-> Null, confidence |-> [type |-> "number", tenths |-> 5],
             labels |-> <<>>]>>,
          <<[summary |-> <<"b">>, confidence |-> [type |-> "number", tenths |-> 5],
             labels |-> << <<"x">>, Null >>]>>,
          <<[summary |-> <<"c">>, confidence |-> [type |-> "number", tenths |-> 5],
             labels |-> <<>>, assignee |-> <<"number", "7">>],
            [summary |-> <<"d">>, confidence |-> [type |-> "number", tenths |-> 5],
             labels |-> <<>>, assignee |-> <<"bob", " ">>]>>}

\* a failed HTTP exchange as the client sees it
FailureResponses ==
  {[kind |-> "detail", text |-> "service detail"],
   [kind |-> "nodetail", text |-> ""],
   [kind |-> "nojson", text |-> ""],
   [kind |-> "network", text |-> "Failed to fetch"]}

\* ------------------------------------- transcription client and its route

\* fetchWithOptionalTimeout with a timeout configured: an abort becomes a
\* new Error, any other rejection of fetch is thrown on as it is
fetchWithOptionalTimeout(outcome) ==
  CASE outcome = "timeout" ->
         JsError("Error", <<"OpenAI Whisper request exceeded the limit of 1000 ms">>)
    [] outcome = "transport" -> JsError("TypeError", <<"fetch failed">>)
    [] OTHER -> [threw |-> FALSE, name |-> "none", message |-> <<>>]

\* transcribeAudioFile: the error it throws for a failed request
transcribeAudioFile(outcome) ==
  LET response == fetchWithOptionalTimeout(outcome)
  IN IF response.threw
     THEN JsError("Error", <<"OpenAI Whisper request failed: ">> \o response.message)
     ELSE IF outcome = "status"
     THEN JsError("Error", <<"OpenAI Whisper returned an error: ", "HTTP 502">>)
     ELSE JsError("Error", <<"OpenAI Whisper API returned an empty transcription">>)

\* /api/whisper, the catch block: every error of the client gets the same
\* answer
WhisperRouteResponse(error) ==
  [kind |-> "detail", text |-> "OpenAI Whisper API request failed", status |-> 502]

\* ------------------------------------------------ lib/nlp and lib/jira
\* mutant: the answer is passed on as it came, missing labels stay missing
extractTasks_KeepsMissingLabels(raw) == raw

\* extractTasks, the mapping of a successful answer: labels default to []
extractTasks(raw) ==
  [i \in 1..Len(raw) |->
     [raw[i] EXCEPT !.labels = IF isArray(@) THEN @ ELSE <<>>]]

IssueKey == <<"KEY-1">>
BrowseUrl(issueKey) == <<"https://jira/browse/">> \o issueKey
RejectBody == <<"denied">>

\* a value that is falsy in a condition: null, undefined, "", 0 or NaN
Falsy(value) ==
  value \in {Null, Undefined, <<>>, <<"number", "0">>, <<"number", "NaN">>}

\* payload.fields.assignee is not set
NoAssignee == [kind |-> "none", value |-> Undefined]

\* /^[0-9a-f-]{24,}$/i and includes("@") over the texts used here
AssigneeKind(trimmed) ==
  IF trimmed = <<"5b10ac8d82e05b22cc7d4ef5">> THEN "accountId"
  ELSE IF trimmed \in {<<"lead@example.com">>} THEN "emailAddress"
  ELSE "name"

\* mutant: the item's assignee is used whatever the toggle
resolveAssignee_IgnoresToggle(item, config) ==
  LET assigneeCandidate == OrElse(item.assignee, config.defaultAssignee)
  IN IF Falsy(assigneeCandidate) THEN NoAssignee
     ELSE IF ~IsText(assigneeCandidate)
     THEN [kind |-> "throws TypeError",
           value |-> <<"assigneeCandidate.trim is not a function">>]
     ELSE IF Trim(assigneeCandidate) = <<>> THEN NoAssignee
     ELSE [kind |-> AssigneeKind(Trim(assigneeCandidate)),
           value |-> Trim(assigneeCandidate)]

resolveAssignee(item, config) ==
  LET assigneeCandidate == IF config.syncAssignee = "false" THEN config.defaultAssignee
                           ELSE OrElse(item.assignee, config.defaultAssignee)
  IN IF Falsy(assigneeCandidate) THEN NoAssignee
     ELSE IF ~IsText(assigneeCandidate)
     THEN [kind |-> "throws TypeError",
           value |-> <<"assigneeCandidate.trim is not a function">>]
     ELSE IF Trim(assigneeCandidate) = <<>> THEN NoAssignee
     ELSE [kind |-> AssigneeKind(Trim(assigneeCandidate)),
           value |-> Trim(assigneeCandidate)]

\* normaliseLabels of lib/jira: the default labels, then those of the
\* item, trimmed, joined, without duplicates; undefined when none is left.
\* label.trim() is called on every element: the first one that is not a
\* string makes the call throw, as does spreading labels that are missing;
\* a string in place of the item's labels is spread into its characters
normaliseLabels(item, config) ==
  LET isString(value) == Len(value) = 2 /\ value[1] = <<"typeof string">>
      fromConfig == IF isArray(config.defaultLabels) THEN config.defaultLabels ELSE <<>>
      fromTask == IF config.syncLabels = "false" THEN <<>>
                  ELSE IF isString(item.labels)
                  THEN [i \in 1..Len(item.labels[2]) |-> <<item.labels[2][i]>>]
                  ELSE item.labels
      all == fromConfig \o fromTask
      bad == {i \in 1..Len(all) : ~IsText(all[i])}
      first == all[CHOOSE i \in bad : \A j \in bad : i <= j]
      trimmed == [i \in 1..Len(all) |-> Trim(all[i])]
      kept == SelectSeq(trimmed, LAMBDA l : l # <<>>)
      combined == Dedup([i \in 1..Len(kept) |-> ReplaceSpaceRuns(kept[i])], {})
  IN IF fromTask = UndefinedTexts
     THEN << <<"throws TypeError">>, <<"fromTask is not iterable">> >>
     ELSE IF bad # {}
     THEN << <<"throws TypeError">>,
             IF first = Null THEN <<"Cannot read properties of null (reading 'trim')">>
             ELSE IF first = Undefined
             THEN <<"Cannot read properties of undefined (reading 'trim')">>
             ELSE <<"label.trim is not a function">> >>
     ELSE IF Len(combined) > 0 THEN combined ELSE UndefinedTexts

\* mutant: the failed result is pushed without its error text
FailedResult_NoError(summary, error) ==
  [summary |-> summary, success |-> FALSE, issueKey |-> Undefined,
   issueUrl |-> Undefined, error |-> Undefined]

\* a JiraResult with success false
FailedResult(summary, error) ==
  [summary |-> summary, success |-> FALSE, issueKey |-> Undefined,
   issueUrl |-> Undefined, error |-> error]

\* mutant: response.ok is not looked at
createJiraTask_IgnoresStatus(item, outcome) ==
  [summary |-> item.summary,
   success |-> TRUE,
   issueKey |-> IF outcome = "created" THEN IssueKey ELSE Undefined,
   issueUrl |-> IF outcome = "created" THEN BrowseUrl(IssueKey) ELSE Undefined,
   error |-> Undefined]

\* createJiraTask: the result for one answer of the tracker
createJiraTask(item, outcome) ==
  IF outcome = "rejected"
  THEN FailedResult(item.summary, <<"Jira API error 500:", " ">> \o RejectBody)
  ELSE [summary |-> item.summary,
        success |-> TRUE,
        issueKey |-> IF outcome = "created" THEN IssueKey ELSE Undefined,
        issueUrl |-> IF outcome = "created" THEN BrowseUrl(IssueKey) ELSE Undefined,
        error |-> Undefined]

\* --------------------------------------------- create-jira-tasks route
\* /^https?:\/\//i
hasProtocol(text) ==
  text # <<>> /\ Head(text) \in {"https://", "http://", "HTTPS://", "HTTP://"}

\* typeof value === "string" ? value.trim() : ""
TrimmedOrEmpty(value) == IF IsText(value) THEN Trim(value) ELSE <<>>

\* toOptionalTrimmed
toOptionalTrimmed(value) ==
  IF ~IsText(value) THEN Undefined
  ELSE IF Trim(value) # <<>> THEN Trim(value) ELSE Undefined

\* normalizeLabels of the route: undefined for a falsy value; a list has
\* its elements that are not strings taken as "", then trimmed, the empty
\* ones dropped, whitespace runs joined; a string is split at its commas
\* and handled as that list
normalizeLabels(value) ==
  LET RECURSIVE split(_, _, _)
      split(text, i, piece) ==
        IF i > Len(text) THEN <<piece>>
        ELSE IF text[i] = "," THEN <<piece>> \o split(text, i + 1, <<>>)
        ELSE split(text, i + 1, Append(piece, text[i]))
      isString == Len(value) = 2 /\ value[1] = <<"typeof string">>
      list == IF isString THEN split(value[2], 1, <<>>) ELSE value
      trimmed == [i \in 1..Len(list) |-> IF IsText(list[i]) THEN Trim(list[i]) ELSE <<>>]
      kept == SelectSeq(trimmed, LAMBDA l : l # <<>>)
      labels == [i \in 1..Len(kept) |-> ReplaceSpaceRuns(kept[i])]
  IN IF value = UndefinedTexts \/ (isString /\ value[2] = <<>>) THEN UndefinedTexts
     ELSE IF Len(labels) > 0 THEN labels ELSE UndefinedTexts

\* config.syncX === false ? false : true
ToggleOrTrue(value) == IF value = "false" THEN "false" ELSE "true"

\* sanitizeJiraConfig; the project key goes through
\* trim().toUpperCase().replace(/\s+/g, ""), toUpperCase being taken over
\* the characters the keys are written in
sanitizeJiraConfig(config) ==
  LET baseUrlRaw == TrimmedOrEmpty(config.baseUrl)
      ToUpperCase(text) ==
        [i \in 1..Len(text) |->
           CASE text[i] = "a" -> "A" [] text[i] = "b" -> "B" [] OTHER -> text[i]]
  IN [baseUrl |-> IF Len(baseUrlRaw) = 0 THEN <<>>
                  ELSE IF hasProtocol(baseUrlRaw) THEN baseUrlRaw
                  ELSE <<"https://">> \o baseUrlRaw,
      email |-> TrimmedOrEmpty(config.email),
      token |-> TrimmedOrEmpty(config.token),
      projectKey |-> SelectSeq(ToUpperCase(TrimmedOrEmpty(config.projectKey)),
                               LAMBDA c : ~IsSpace(c)),
      defaultAssignee |-> toOptionalTrimmed(config.defaultAssignee),
      defaultPriority |-> toOptionalTrimmed(config.defaultPriority),
      defaultLabels |-> normalizeLabels(config.defaultLabels),
      syncAssignee |-> ToggleOrTrue(config.syncAssignee),
      syncDueDate |-> ToggleOrTrue(config.syncDueDate),
      syncPriority |-> ToggleOrTrue(config.syncPriority),
      syncLabels |-> ToggleOrTrue(config.syncLabels)]

\* new URL(text) does not throw: a scheme followed by a host without
\* whitespace
UrlParses(text) ==
  /\ hasProtocol(text)
  /\ Len(text) > 1
  /\ \A i \in 2..Len(text) : ~IsSpace(text[i])

\* /^[A-Z][A-Z0-9]*$/ over the characters the keys are written in
MatchesKeyPattern(text) ==
  /\ text # <<>>
  /\ text[1] \in {"A", "B"}
  /\ \A i \in 2..Len(text) : text[i] \in {"A", "B", "1"}

\* mutant: the pattern of the project key is not tested
validateJiraConfig_NoKeyPattern(config) ==
  IF config.baseUrl = <<>> THEN "Jira base URL is required"
  ELSE IF ~UrlParses(config.baseUrl) THEN "invalid Jira base URL"
  ELSE IF config.email = <<>> THEN "Jira user e-mail is required"
  ELSE IF config.token = <<>> THEN "Jira API token is required"
  ELSE IF config.projectKey = <<>> THEN "Jira project key is required"
  ELSE NullMessage

\* validateJiraConfig: the message of the first test that fails, else null
validateJiraConfig(config) ==
  IF config.baseUrl = <<>> THEN "Jira base URL is required"
  ELSE IF ~UrlParses(config.baseUrl) THEN "invalid Jira base URL"
  ELSE IF config.email = <<>> THEN "Jira user e-mail is required"
  ELSE IF config.token = <<>> THEN "Jira API token is required"
  ELSE IF config.projectKey = <<>> THEN "Jira project key is required"
  ELSE IF ~MatchesKeyPattern(config.projectKey)
  THEN "Jira project key must contain only Latin capital letters and digits"
  ELSE NullMessage

\* a JiraConfig as the form sends it (description and issueType, which the
\* route does not validate, are left out); a toggle is "true", "false" or
\* "undefined".  This one passes: texts with surrounding whitespace, a URL
\* without a scheme, a key in lower case
ValidConfig ==
  [baseUrl |-> <<" ", "jira.example.com">>, email |-> <<"me@example.com", " ">>,
   token |-> <<"secret">>, projectKey |-> <<"a", " ", "b", "1">>,
   defaultAssignee |-> Undefined, defaultPriority |-> Undefined,
   defaultLabels |-> UndefinedTexts,
   syncAssignee |-> "undefined", syncDueDate |-> "undefined",
   syncPriority |-> "undefined", syncLabels |-> "undefined"]

\* the two configurations of the other specifications
PageConfigs == {ValidConfig, [ValidConfig EXCEPT !.token = <<>>]}

\* the guard of the loop body: no task, a summary that is not a string, or
\* a blank one
InvalidTask(task) ==
  task = NullRecord \/ ~IsText(task.summary) \/ Trim(task.summary) = <<>>

\* the try/catch around createJiraTask
RouteTaskResult(task, outcome) ==
  CASE outcome = "timeout" -> FailedResult(task.summary, <<"Jira request timeout">>)
    [] outcome = "thrown" -> FailedResult(task.summary, <<"socket hang up">>)
    [] OTHER -> createJiraTask(task, outcome)

hasSuccess(results) == \E i \in 1..Len(results) : results[i].success

\* mutant: the route answers 200 whatever the results
RouteStatus_Always200(results) == IF results = <<>> THEN 200 ELSE 200

RouteStatus(results) == IF hasSuccess(results) THEN 200 ELSE 502

\* ---------------------------------------------- useWorkflowManager (hook)
initialState ==
  [status |-> "idle",
   transcript |-> Null,
   tasks |-> <<>>,
   jiraResults |-> <<>>,
   errorMessage |-> NullMessage,
   stage |-> "waiting for upload",
   percentage |-> 0]

\* mutant: the detail of the answer is used as it is, without a default
RequestError_NoDefault(resp, noJson, noDetail) == resp.text

\* the message of the Error thrown by whisperRequest / nlpRequest /
\* ingestRequest for a failed exchange
RequestError(resp, noJson, noDetail) ==
  CASE resp.kind = "network" -> resp.text
    [] resp.kind = "nojson" -> noJson
    [] resp.kind = "nodetail" -> noDetail
    [] OTHER -> resp.text

whisperRequestError(resp) ==
  RequestError(resp, "transcription error", "OpenAI Whisper API request failed")

nlpRequestError(resp) == RequestError(resp, "NLP error", "text analysis failed")

ingestRequestError(resp) ==
  RequestError(resp, "meeting import failed", "meeting import failed")

\* ingestRequest, the mapping of a successful answer
ingestRequestTasks(tasks) ==
  [i \in 1..Len(tasks) |->
     [tasks[i] EXCEPT !.labels = IF isArray(@) THEN @ ELSE <<>>]]

\* the metadata each start passes to persistMeeting: the name of the file,
\* the meeting id and the recording type of the Zoom payload (undefined
\* when the payload has none), the file id of the Google payload
RunMetadata(source, recordingType) ==
  CASE source = "upload" -> <<[key |-> "fileName", value |-> <<"meeting.mp3">>]>>
    [] source = "zoom" -> <<[key |-> "meetingId", value |-> <<"m1">>],
                            [key |-> "recordingType", value |-> recordingType]>>
    [] OTHER -> <<[key |-> "fileId", value |-> <<"g1">>]>>

VARIABLES
  state,            \* WorkflowState
  history,          \* MeetingSummary[] held by the hook
  activeMeetingId,  \* id of the active record, NoId when null
  storage,          \* the blob under STORAGE_KEY, NullBlob when absent
  mounted,          \* the mount effect has loaded the history
  clock,            \* source of Date.now()/Math.random() ids
  runs,             \* the start calls: position and closure variables
  syncs,            \* the submitToJira calls and the route serving each
  starts,           \* number of start calls made
  submits,          \* number of submitToJira calls that sent a request
  apiCalls,         \* requests sent to /api/create-jira-tasks
  trackerCalls,     \* requests sent to the tracker
  last              \* the step taken last and its inputs

vars == <<state, history, activeMeetingId, storage, mounted, clock, runs, syncs,
          starts, submits, apiCalls, trackerCalls, last>>

NoRun == [kind |-> "none", pc |-> "none", transcript |-> Null, stale |-> FALSE]
NoSync == [pc |-> "none", tasks |-> <<>>, activeId |-> NoId, config |-> ValidConfig,
           index |-> 1, results |-> <<>>, outcomes |-> <<>>, inFlight |-> {},
           stale |-> FALSE]

\* stale: the step belongs to a call made before the latest start or reset
Event(op, text, raw, msg, stale) ==
  [op |-> op, text |-> text, raw |-> raw, msg |-> msg, stale |-> stale,
   outcomes |-> <<>>, source |-> "none", cause |-> "none", kind |-> "none"]

Init ==
  /\ state = initialState
  /\ history = <<>>
  /\ activeMeetingId = NoId
  /\ storage = NullBlob
  /\ mounted = FALSE
  /\ clock = 1
  /\ runs = [r \in 1..MaxStarts |-> NoRun]
  /\ syncs = [k \in 1..MaxSyncs |-> NoSync]
  /\ starts = 0
  /\ submits = 0
  /\ apiCalls = 0
  /\ trackerCalls = 0
  /\ last = Event("init", Null, <<>>, "", FALSE)

\* a synchronous stretch of a handler is never interleaved: nothing else
\* runs between the two setState calls that open startUpload
Settled == mounted /\ \A r \in 1..MaxStarts : runs[r].pc # "begin"

\* number of calls (starts and submits) that have not returned yet
InFlight ==
  Cardinality({r \in 1..MaxStarts : runs[r].pc # "none"})
    + Cardinality({k \in 1..MaxSyncs : syncs[k].pc # "none"})

\* a later start or reset makes every call still in flight an earlier run
Superseded(procs) ==
  [i \in DOMAIN procs |->
     IF procs[i].pc = "none" THEN procs[i] ELSE [procs[i] EXCEPT !.stale = TRUE]]

\* useEffect(() => setHistory(loadMeetingHistory()), []); when the load
\* throws, the effect throws: setHistory is not called and the page is not
\* rendered
Mount ==
  /\ ~mounted
  /\ LET effect(loaded) ==
           IF loaded # <<>> /\ "threw" \in DOMAIN loaded[1]
           THEN /\ UNCHANGED <<mounted, history>>
                /\ last' = [Event("mountThrew", Null, <<>>, loaded[1].message[1], FALSE)
                              EXCEPT !.kind = loaded[1].name]
           ELSE /\ mounted' = TRUE
                /\ history' = loaded
                /\ last' = Event("mount", Null, <<>>, "", FALSE)
     IN effect(loadMeetingHistory(storage))
  /\ UNCHANGED <<state, activeMeetingId, storage, clock, runs, syncs, starts,
                 submits, apiCalls, trackerCalls>>

\* mutant: the record is created whatever the number of tasks
persistMeeting_NoEmptyCheck(source, transcript, tasks, metadata) ==
  LET summary == createMeetingSummary(source, transcript, tasks, metadata, clock)
      next == writeHistory(storage, persistMeetingSummary(summary, history))
  IN <<next, StoredAfterWrite(storage, next), summary.id, clock + 1>>

\* persistMeeting: <<history, storage, activeMeetingId, clock>> afterwards
\* (the transcript of a run is a string and the history of the hook holds
\* sanitised records: the store throws nothing here)
persistMeeting(source, transcript, tasks, metadata) ==
  IF Len(tasks) = 0
  THEN <<history, storage, activeMeetingId, clock>>
  ELSE LET summary == createMeetingSummary(source, transcript, tasks, metadata, clock)
           next == writeHistory(storage, persistMeetingSummary(summary, history))
       IN <<next, StoredAfterWrite(storage, next), summary.id, clock + 1>>

\* mutant: the record is looked up by the active record id of the latest
\* render, not by the one the submitToJira call was created with
updateHistoryWithJira_CurrentId(capturedId, results) ==
  IF activeMeetingId = NoId \/ Len(results) = 0
  THEN <<history, storage>>
  ELSE LET next == writeHistory(storage, replaceMeetingSummary(activeMeetingId, results, history))
       IN <<next, StoredAfterWrite(storage, next)>>

\* mutant: the results are written into every record of the history
updateHistoryWithJira_PatchesAll(capturedId, results) ==
  IF capturedId = NoId \/ Len(results) = 0
  THEN <<history, storage>>
  ELSE LET base == SanitiseAll(history)
           next == writeHistory(storage,
                     [i \in 1..Len(base) |->
                        sanitiseMeetingSummary([base[i] EXCEPT !.jiraResults = results])])
       IN <<next, StoredAfterWrite(storage, next)>>

\* updateHistoryWithJira as captured by a submitToJira call:
\* <<history, storage>> afterwards
updateHistoryWithJira(capturedId, results) ==
  IF capturedId = NoId \/ Len(results) = 0
  THEN <<history, storage>>
  ELSE LET next == writeHistory(storage, replaceMeetingSummary(capturedId, results, history))
       IN <<next, StoredAfterWrite(storage, next)>>

\* mutant: the history is emptied, the active record id stays
ClearHistory_KeepsActive ==
  /\ Settled
  /\ storage' = clearMeetingHistory(storage)
  /\ history' = <<>>
  /\ last' = Event("clearHistory", Null, <<>>, "", FALSE)
  /\ UNCHANGED <<state, activeMeetingId, mounted, clock, runs, syncs, starts, submits,
                 apiCalls, trackerCalls>>

\* clearHistory
ClearHistory ==
  /\ Settled
  /\ storage' = clearMeetingHistory(storage)
  /\ history' = <<>>
  /\ activeMeetingId' = NoId
  /\ last' = Event("clearHistory", Null, <<>>, "", FALSE)
  /\ UNCHANGED <<state, mounted, clock, runs, syncs, starts, submits, apiCalls, trackerCalls>>

\* mutant: reset keeps the progress of the run it ends
ResetState_KeepsProgress == [initialState EXCEPT !.percentage = state.percentage]

\* setState({ ...initialState }) of reset
ResetState == initialState

\* mutant: reset also forgets the meetings, like clearHistory
Reset_ClearsHistory ==
  /\ Settled
  /\ state' = ResetState
  /\ activeMeetingId' = NoId
  /\ history' = <<>>
  /\ storage' = clearMeetingHistory(storage)
  /\ runs' = Superseded(runs)
  /\ syncs' = Superseded(syncs)
  /\ last' = Event("reset", Null, <<>>, "", FALSE)
  /\ UNCHANGED <<mounted, clock, starts, submits, apiCalls, trackerCalls>>

\* reset
Reset ==
  /\ Settled
  /\ state' = ResetState
  /\ activeMeetingId' = NoId
  /\ runs' = Superseded(runs)
  /\ syncs' = Superseded(syncs)
  /\ last' = Event("reset", Null, <<>>, "", FALSE)
  /\ UNCHANGED <<history, storage, mounted, clock, starts, submits, apiCalls, trackerCalls>>


\* ---- the values given to setState, one definition per call
\* startUpload, first setState
UploadingState ==
  [initialState EXCEPT !.status = "uploading",
                       !.stage = "uploading file",
                       !.percentage = 10]

\* startUpload, second setState
TranscribingState(prev) ==
  [prev EXCEPT !.status = "transcribing",
               !.stage = "transcribing",
               !.percentage = 35]

\* mutant: the transcript is published as the final result
ExtractingState_SkipsToReady(prev, transcript) ==
  [prev EXCEPT !.transcript = transcript,
               !.status = "ready",
               !.stage = "ready for Jira",
               !.percentage = 90]

\* startUpload, after whisperRequest
ExtractingState(prev, transcript) ==
  [prev EXCEPT !.transcript = transcript,
               !.status = "extracting",
               !.stage = "extracting tasks",
               !.percentage = 65]

\* startUpload, after nlpRequest
ReadyState(prev, tasks) ==
  [prev EXCEPT !.tasks = tasks,
               !.status = "ready",
               !.stage = "ready for Jira",
               !.percentage = 90]

\* mutant: the catch block also clears what the run had obtained
FailedState_ClearsResults(prev, message) ==
  [prev EXCEPT !.status = "error", !.errorMessage = message, !.stage = "error",
               !.transcript = Null, !.tasks = <<>>]

\* the catch block of startUpload and of submitToJira
FailedState(prev, message) ==
  [prev EXCEPT !.status = "error", !.errorMessage = message, !.stage = "error"]

\* startZoomImport / startGoogleImport, first setState
ImportStartState ==
  [initialState EXCEPT !.status = "transcribing",
                       !.stage = "requesting recording",
                       !.percentage = 20]

\* startZoomImport / startGoogleImport, after ingestRequest
ImportReadyState(transcript, tasks) ==
  [status |-> "ready",
   transcript |-> transcript,
   tasks |-> tasks,
   jiraResults |-> <<>>,
   errorMessage |-> NullMessage,
   stage |-> "ready for Jira",
   percentage |-> 90]

\* the catch block of startZoomImport / startGoogleImport
ImportFailedState(message) ==
  [status |-> "error",
   transcript |-> Null,
   tasks |-> <<>>,
   jiraResults |-> <<>>,
   errorMessage |-> message,
   stage |-> "error",
   percentage |-> 100]

\* mutant: the empty list is not detected
noTasksToSend_Never(tasks) == FALSE

\* submitToJira: the test that ends the call before any request
noTasksToSend(tasks) == Len(tasks) = 0

NoTasksMessage == "no tasks to send to Jira"

\* submitToJira, setState of the early return
NoTasksState(prev) ==
  [prev EXCEPT !.status = "error", !.errorMessage = NoTasksMessage]

\* submitToJira, setState before the request
SubmittingState(prev) ==
  [prev EXCEPT !.status = "submittingJira",
               !.errorMessage = NullMessage,
               !.stage = "sending tasks to Jira",
               !.percentage = 95]

PartialFailureMessage == "some tasks could not be created in Jira"

\* mutant: an answer without results leaves the results already shown
DoneWithErrorsState_KeepsResults(prev, results, detail) ==
  [prev EXCEPT !.status = "done",
               !.jiraResults = IF results = UndefinedList THEN @ ELSE results,
               !.errorMessage = IF detail = NullMessage THEN PartialFailureMessage ELSE detail,
               !.stage = "finished with errors",
               !.percentage = 100]

\* submitToJira, setState of the !response.ok branch (results and detail
\* as the answer carries them; a missing one takes its default)
DoneWithErrorsState(prev, results, detail) ==
  [prev EXCEPT !.status = "done",
               !.jiraResults = IF results = UndefinedList THEN <<>> ELSE results,
               !.errorMessage = IF detail = NullMessage THEN PartialFailureMessage ELSE detail,
               !.stage = "finished with errors",
               !.percentage = 100]

\* mutant: a failed entry makes the success branch report a failure too
DoneState_ReportsPartialFailure(prev, results) ==
  [prev EXCEPT !.status = "done",
               !.jiraResults = results,
               !.errorMessage = IF \E i \in 1..Len(results) : ~results[i].success
                                THEN PartialFailureMessage ELSE @,
               !.stage = "finished",
               !.percentage = 100]

\* submitToJira, setState of the success branch
DoneState(prev, results) ==
  [prev EXCEPT !.status = "done",
               !.jiraResults = results,
               !.stage = "finished",
               !.percentage = 100]

\* ---- the calls
\* startUpload up to its first setState
StartUpload ==
  /\ Settled
  /\ starts < MaxStarts /\ InFlight < MaxInFlight
  /\ state' = UploadingState
  /\ runs' = [Superseded(runs) EXCEPT ![starts + 1] =
                [kind |-> "upload", pc |-> "begin", transcript |-> Null, stale |-> FALSE]]
  /\ syncs' = Superseded(syncs)
  /\ starts' = starts + 1
  /\ last' = Event("startUpload", Null, <<>>, "", FALSE)
  /\ UNCHANGED <<history, activeMeetingId, storage, mounted, clock, submits,
                 apiCalls, trackerCalls>>

\* startUpload: the second setState, then the request to /api/whisper
UploadTranscribing(r) ==
  /\ mounted
  /\ runs[r].pc = "begin"
  /\ state' = TranscribingState(state)
  /\ runs' = [runs EXCEPT ![r].pc = "whisper"]
  /\ last' = Event("uploadTranscribing", Null, <<>>, "", runs[r].stale)
  /\ UNCHANGED <<history, activeMeetingId, storage, mounted, clock, syncs, starts,
                 submits, apiCalls, trackerCalls>>

\* startUpload: whisperRequest returned the transcript
WhisperOk(r, transcript) ==
  /\ Settled
  /\ runs[r].kind = "upload" /\ runs[r].pc = "whisper"
  /\ state' = ExtractingState(state, transcript)
  /\ runs' = [runs EXCEPT ![r].pc = "nlp", ![r].transcript = transcript]
  /\ last' = Event("whisperOk", transcript, <<>>, "", runs[r].stale)
  /\ UNCHANGED <<history, activeMeetingId, storage, mounted, clock, syncs, starts,
                 submits, apiCalls, trackerCalls>>

\* startUpload: whisperRequest threw, the catch block
WhisperFail(r, resp) ==
  /\ Settled
  /\ runs[r].kind = "upload" /\ runs[r].pc = "whisper"
  /\ state' = FailedState(state, whisperRequestError(resp))
  /\ runs' = [runs EXCEPT ![r] = NoRun]
  /\ last' = Event("whisperFail", Null, <<>>, whisperRequestError(resp), runs[r].stale)
  /\ UNCHANGED <<history, activeMeetingId, storage, mounted, clock, syncs, starts,
                 submits, apiCalls, trackerCalls>>

\* startUpload: the transcription client threw inside /api/whisper, the
\* route answered 502 and whisperRequest threw; the catch block
WhisperRouteFail(r, cause) ==
  /\ Settled
  /\ runs[r].kind = "upload" /\ runs[r].pc = "whisper"
  /\ LET error == transcribeAudioFile(cause)
         message == whisperRequestError(WhisperRouteResponse(error))
     IN /\ state' = FailedState(state, message)
        /\ last' = [Event("whisperFail", Null, <<>>, message, runs[r].stale)
                      EXCEPT !.cause = cause, !.kind = error.name]
  /\ runs' = [runs EXCEPT ![r] = NoRun]
  /\ UNCHANGED <<history, activeMeetingId, storage, mounted, clock, syncs, starts,
                 submits, apiCalls, trackerCalls>>

\* startUpload: nlpRequest returned the tasks of /api/extract-tasks
\* (extractTasks applied to the answer of the NLP service)
NlpOk(r, raw) ==
  /\ Settled
  /\ runs[r].kind = "upload" /\ runs[r].pc = "nlp"
  /\ LET tasks == extractTasks(raw)
         persisted == persistMeeting("upload", runs[r].transcript, tasks,
                                     RunMetadata("upload", Undefined))
     IN /\ history' = persisted[1]
        /\ storage' = persisted[2]
        /\ activeMeetingId' = persisted[3]
        /\ clock' = persisted[4]
        /\ state' = ReadyState(state, tasks)
  /\ runs' = [runs EXCEPT ![r] = NoRun]
  /\ last' = [Event("nlpOk", runs[r].transcript, raw, "", runs[r].stale)
                EXCEPT !.source = "upload"]
  /\ UNCHANGED <<mounted, syncs, starts, submits, apiCalls, trackerCalls>>

\* startUpload: nlpRequest threw, the catch block
NlpFail(r, resp) ==
  /\ Settled
  /\ runs[r].kind = "upload" /\ runs[r].pc = "nlp"
  /\ state' = FailedState(state, nlpRequestError(resp))
  /\ runs' = [runs EXCEPT ![r] = NoRun]
  /\ last' = Event("nlpFail", Null, <<>>, nlpRequestError(resp), runs[r].stale)
  /\ UNCHANGED <<history, activeMeetingId, storage, mounted, clock, syncs, starts,
                 submits, apiCalls, trackerCalls>>

\* startZoomImport / startGoogleImport up to the await of the request to
\* the ingest route: the state is set and the request is on its way, the
\* route has not run yet.  payloadOk: the payload has the fields the route
\* requires
StartImport(source, payloadOk, recordingType) ==
  /\ Settled
  /\ starts < MaxStarts /\ InFlight < MaxInFlight
  /\ state' = ImportStartState
  /\ runs' = [Superseded(runs) EXCEPT ![starts + 1] =
                [kind |-> source, pc |-> "request", transcript |-> Null, stale |-> FALSE,
                 recordingType |-> recordingType, payloadOk |-> payloadOk,
                 calls |-> <<>>]]
  /\ syncs' = Superseded(syncs)
  /\ starts' = starts + 1
  /\ last' = Event("startImport", Null, <<>>, "", FALSE)
  /\ UNCHANGED <<history, activeMeetingId, storage, mounted, clock, submits,
                 apiCalls, trackerCalls>>

\* ingest route: the request has arrived and its payload is read.  With a
\* field missing the route answers 400 without calling a service; otherwise
\* fetchZoomRecording / fetchGoogleMeetRecording requests the lookup of the
\* recording
IngestRouteStart(r) ==
  /\ Settled
  /\ runs[r].pc = "request"
  /\ runs' = [runs EXCEPT
                ![r].pc = IF runs[r].payloadOk THEN "metadata" ELSE "badPayload",
                ![r].calls = IF runs[r].payloadOk THEN <<"metadata">> ELSE <<>>]
  /\ last' = Event("ingestRouteStart", Null, <<>>, "", runs[r].stale)
  /\ UNCHANGED <<state, history, activeMeetingId, storage, mounted, clock, syncs,
                 starts, submits, apiCalls, trackerCalls>>

\* mutant: the recording is passed on without being downloaded
IngestMetadataOk_SkipsDownload(r) ==
  /\ Settled
  /\ runs[r].pc = "metadata"
  /\ runs' = [runs EXCEPT ![r].pc = "transcribe", ![r].calls = Append(@, "transcribe")]
  /\ last' = Event("ingestMetadataOk", Null, <<>>, "", runs[r].stale)
  /\ UNCHANGED <<state, history, activeMeetingId, storage, mounted, clock, syncs,
                 starts, submits, apiCalls, trackerCalls>>

\* ingest route, fetchZoomRecording / fetchGoogleMeetRecording: the lookup
\* of the recording answered with a usable file, the download is requested
IngestMetadataOk(r) ==
  /\ Settled
  /\ runs[r].pc = "metadata"
  /\ runs' = [runs EXCEPT ![r].pc = "download", ![r].calls = Append(@, "download")]
  /\ last' = Event("ingestMetadataOk", Null, <<>>, "", runs[r].stale)
  /\ UNCHANGED <<state, history, activeMeetingId, storage, mounted, clock, syncs,
                 starts, submits, apiCalls, trackerCalls>>

\* ingest route: the recording was downloaded, transcribeAudioBuffer is
\* called
IngestFetchOk(r) ==
  /\ Settled
  /\ runs[r].pc = "download"
  /\ runs' = [runs EXCEPT ![r].pc = "transcribe", ![r].calls = Append(@, "transcribe")]
  /\ last' = Event("ingestFetchOk", Null, <<>>, "", runs[r].stale)
  /\ UNCHANGED <<state, history, activeMeetingId, storage, mounted, clock, syncs,
                 starts, submits, apiCalls, trackerCalls>>

\* ingest route: transcribeAudioBuffer returned, extractTasks is called
IngestTranscribeOk(r, transcript) ==
  /\ Settled
  /\ runs[r].pc = "transcribe"
  /\ runs' = [runs EXCEPT ![r].pc = "extract", ![r].transcript = transcript,
                          ![r].calls = Append(@, "extract")]
  /\ last' = Event("ingestTranscribeOk", transcript, <<>>, "", runs[r].stale)
  /\ UNCHANGED <<state, history, activeMeetingId, storage, mounted, clock, syncs,
                 starts, submits, apiCalls, trackerCalls>>

\* ingest route: extractTasks returned, the route answers 200 and the
\* start call persists the meeting and publishes the result
IngestExtractOk(r, raw) ==
  /\ Settled
  /\ runs[r].pc = "extract"
  /\ LET tasks == ingestRequestTasks(extractTasks(raw))
         persisted == persistMeeting(runs[r].kind, runs[r].transcript, tasks,
                                     RunMetadata(runs[r].kind, runs[r].recordingType))
     IN /\ history' = persisted[1]
        /\ storage' = persisted[2]
        /\ activeMeetingId' = persisted[3]
        /\ clock' = persisted[4]
        /\ state' = ImportReadyState(runs[r].transcript, tasks)
  /\ runs' = [runs EXCEPT ![r] = NoRun]
  /\ last' = [Event("ingestOk", runs[r].transcript, raw, "", runs[r].stale)
                EXCEPT !.source = runs[r].kind, !.outcomes = runs[r].calls]
  /\ UNCHANGED <<mounted, syncs, starts, submits, apiCalls, trackerCalls>>

\* the ingest exchange failed: the route answered 400 or 502 (a step of it
\* threw) or the request itself failed, which it can do before the route
\* has run; the catch block of the start call
IngestFail(r, resp) ==
  /\ Settled
  /\ runs[r].pc \in {"request", "badPayload", "metadata", "download", "transcribe", "extract"}
  /\ runs[r].pc = "request" => resp.kind = "network"
  /\ runs[r].pc = "badPayload" => resp.kind = "detail"
  /\ state' = ImportFailedState(ingestRequestError(resp))
  /\ runs' = [runs EXCEPT ![r] = NoRun]
  /\ last' = [Event("ingestFail", runs[r].transcript, <<>>, ingestRequestError(resp),
                    runs[r].stale)
                EXCEPT !.outcomes = runs[r].calls, !.cause = runs[r].pc]
  /\ UNCHANGED <<history, activeMeetingId, storage, mounted, clock, syncs, starts,
                 submits, apiCalls, trackerCalls>>

\* submitToJira up to the request to /api/create-jira-tasks; the call works
\* on the tasks and the active record id of the render it was created in
SubmitToJira(config) ==
  /\ Settled
  /\ IF noTasksToSend(state.tasks)
     THEN /\ state' = NoTasksState(state)
          /\ last' = Event("submitEmpty", Null, <<>>, NoTasksMessage, FALSE)
          /\ UNCHANGED <<syncs, submits, apiCalls>>
     ELSE /\ submits < MaxSyncs /\ InFlight < MaxInFlight
          /\ state' = SubmittingState(state)
          /\ syncs' = [syncs EXCEPT ![submits + 1] =
                         [pc |-> "request", tasks |-> state.tasks,
                          activeId |-> activeMeetingId, config |-> config,
                          index |-> 1, results |-> <<>>, outcomes |-> <<>>,
                          inFlight |-> {}, stale |-> FALSE]]
          /\ submits' = submits + 1
          /\ apiCalls' = apiCalls + 1
          /\ last' = Event("submitToJira", Null, <<>>, "", FALSE)
  /\ UNCHANGED <<history, activeMeetingId, storage, mounted, clock, runs, starts,
                 trackerCalls>>

\* submitToJira: fetch rejected before the route ran, the catch block
SyncFetchFail(k, message) ==
  /\ Settled
  /\ syncs[k].pc = "request"
  /\ state' = FailedState(state, message)
  /\ syncs' = [syncs EXCEPT ![k] = NoSync]
  /\ last' = Event("syncFetchFail", Null, <<>>, message, syncs[k].stale)
  /\ UNCHANGED <<history, activeMeetingId, storage, mounted, clock, runs, starts,
                 submits, apiCalls, trackerCalls>>

\* route: validateJiraConfig failed, answer 400 with a detail and no
\* results; submitToJira takes the !response.ok branch
RouteRejectConfig(k) ==
  /\ Settled
  /\ syncs[k].pc = "request"
  /\ LET validationError == validateJiraConfig(sanitizeJiraConfig(syncs[k].config))
     IN /\ validationError # NullMessage
        /\ state' = DoneWithErrorsState(state, UndefinedList, validationError)
        /\ last' = Event("syncRejected", Null, syncs[k].tasks, validationError, syncs[k].stale)
  /\ syncs' = [syncs EXCEPT ![k] = NoSync]
  /\ UNCHANGED <<history, activeMeetingId, storage, mounted, clock, runs, starts,
                 submits, apiCalls, trackerCalls>>

\* route: the payload and the configuration passed, the loop starts
RouteStart(k) ==
  /\ Settled
  /\ syncs[k].pc = "request"
  /\ validateJiraConfig(sanitizeJiraConfig(syncs[k].config)) = NullMessage
  /\ syncs' = [syncs EXCEPT ![k].pc = "loop"]
  /\ last' = Event("routeStart", Null, <<>>, "", syncs[k].stale)
  /\ UNCHANGED <<state, history, activeMeetingId, storage, mounted, clock, runs,
                 starts, submits, apiCalls, trackerCalls>>

\* route loop: a task without a usable summary gets a failed result, no call
RouteInvalidTask(k) ==
  /\ Settled
  /\ syncs[k].pc = "loop" /\ syncs[k].index <= Len(syncs[k].tasks)
  /\ InvalidTask(syncs[k].tasks[syncs[k].index])
  /\ syncs' = [syncs EXCEPT
       ![k].results = Append(@, FailedResult(
                                  IF syncs[k].tasks[syncs[k].index] = NullRecord THEN <<>>
                                  ELSE OrElse(syncs[k].tasks[syncs[k].index].summary, <<>>),
                                  <<"invalid task summary">>)),
       ![k].outcomes = Append(@, "invalid"),
       ![k].index = @ + 1]
  /\ last' = Event("routeInvalidTask", Null, <<>>, "", syncs[k].stale)
  /\ UNCHANGED <<state, history, activeMeetingId, storage, mounted, clock, runs,
                 starts, submits, apiCalls, trackerCalls>>

\* mutant: the request is sent and the loop goes on without awaiting it
IssueRequest_NoAwait(sync) ==
  [sync EXCEPT !.inFlight = @ \cup {sync.index}, !.index = @ + 1]

\* the loop body awaits createJiraTask: the handler is suspended with the
\* request for the current task in flight
IssueRequest(sync) ==
  [sync EXCEPT !.pc = "tracker", !.inFlight = @ \cup {sync.index}]

\* route loop: createJiraTask sends the request for the current task; when
\* buildDescription (labels missing, or a non-empty string), resolveAssignee
\* (an assignee that is truthy and no string) or normaliseLabels throws
\* while the request is built, nothing is sent and the catch block pushes a
\* failed result with the message of the error.  A task the service sent
\* without an assignee has item.assignee undefined
RouteIssue(k) ==
  /\ Settled
  /\ syncs[k].pc = "loop" /\ syncs[k].index <= Len(syncs[k].tasks)
  /\ ~InvalidTask(syncs[k].tasks[syncs[k].index])
  /\ LET task == syncs[k].tasks[syncs[k].index]
         assignee == resolveAssignee(
                       [assignee |-> IF "assignee" \in DOMAIN task THEN task.assignee
                                     ELSE Undefined],
                       sanitizeJiraConfig(syncs[k].config))
         labels == normaliseLabels(task, sanitizeJiraConfig(syncs[k].config))
         threw == IF task.labels = UndefinedTexts
                  THEN <<"Cannot read properties of undefined (reading 'length')">>
                  ELSE IF ~isArray(task.labels) /\ task.labels[2] # <<>>
                  THEN <<"item.labels.join is not a function">>
                  ELSE IF assignee.kind = "throws TypeError" THEN assignee.value
                  ELSE IF Len(labels) = 2 /\ labels[1] = <<"throws TypeError">> THEN labels[2]
                  ELSE Null
     IN IF threw # Null
        THEN /\ syncs' = [syncs EXCEPT
                  ![k].results = Append(@, FailedResult(task.summary, threw)),
                  ![k].outcomes = Append(@, "threw"),
                  ![k].index = @ + 1]
             /\ last' = Event("routeThrew", Null, <<>>, "", syncs[k].stale)
             /\ UNCHANGED trackerCalls
        ELSE /\ syncs' = [syncs EXCEPT ![k] = IssueRequest(syncs[k])]
             /\ trackerCalls' = trackerCalls + 1
             /\ last' = Event("routeIssue", Null, <<>>, "", syncs[k].stale)
  /\ UNCHANGED <<state, history, activeMeetingId, storage, mounted, clock, runs,
                 starts, submits, apiCalls>>

\* route loop: the tracker call ended, its result is pushed
RouteSettle(k, outcome) ==
  /\ Settled
  /\ syncs[k].pc = "tracker"
  /\ syncs' = [syncs EXCEPT
       ![k].results = Append(@, RouteTaskResult(syncs[k].tasks[syncs[k].index], outcome)),
       ![k].outcomes = Append(@, outcome),
       ![k].inFlight = @ \ {syncs[k].index},
       ![k].index = @ + 1,
       ![k].pc = "loop"]
  /\ last' = Event("routeSettle", Null, <<>>, "", syncs[k].stale)
  /\ UNCHANGED <<state, history, activeMeetingId, storage, mounted, clock, runs,
                 starts, submits, apiCalls, trackerCalls>>

\* route: the loop is over, answer {results} with 200 or 502; submitToJira
\* patches the history and publishes the results
SyncResponse(k) ==
  /\ Settled
  /\ syncs[k].pc = "loop" /\ syncs[k].index > Len(syncs[k].tasks)
  /\ LET results == syncs[k].results
         updated == IF Len(results) > 0
                    THEN updateHistoryWithJira(syncs[k].activeId, results)
                    ELSE <<history, storage>>
     IN /\ history' = updated[1]
        /\ storage' = updated[2]
        /\ state' = IF RouteStatus(results) # 200
                    THEN DoneWithErrorsState(state, results, NullMessage)
                    ELSE DoneState(state, results)
  /\ syncs' = [syncs EXCEPT ![k] = NoSync]
  /\ last' = [Event("syncResponse", Null, syncs[k].tasks, "", syncs[k].stale)
                EXCEPT !.outcomes = syncs[k].outcomes]
  /\ UNCHANGED <<activeMeetingId, mounted, clock, runs, starts, submits, apiCalls,
                 trackerCalls>>

\* ------------------------------------------------------- the page (app/page)
canStartNewFlow == state.status \in {"idle", "error", "done"}
canReset == state.status \in {"error", "done"}
canSubmit == state.status = "ready"
canClearHistory == Len(history) > 0

Sources == {"zoom", "google"}

\* steps of the calls in flight: answers of the services and of the routes
Progress(transcripts, taskLists, failures, outcomes) ==
  \/ Mount
  \/ \E r \in 1..MaxStarts :
       \/ UploadTranscribing(r)
       \/ \E t \in transcripts : WhisperOk(r, t)
       \/ \E resp \in failures : WhisperFail(r, resp)
       \/ \E cause \in {"timeout", "status", "transport", "empty"} : WhisperRouteFail(r, cause)
       \/ \E raw \in taskLists : NlpOk(r, raw)
       \/ \E resp \in failures : NlpFail(r, resp)
       \/ IngestRouteStart(r)
       \/ IngestMetadataOk(r)
       \/ IngestFetchOk(r)
       \/ \E t \in transcripts : IngestTranscribeOk(r, t)
       \/ \E raw \in taskLists : IngestExtractOk(r, raw)
       \/ \E resp \in failures : IngestFail(r, resp)
  \/ \E k \in 1..MaxSyncs :
       \/ SyncFetchFail(k, "Failed to fetch")
       \/ RouteRejectConfig(k)
       \/ RouteStart(k)
       \/ RouteInvalidTask(k)
       \/ RouteIssue(k)
       \/ \E o \in outcomes : RouteSettle(k, o)
       \/ SyncResponse(k)

\* the application: the hook driven through the controls the page renders;
\* the Zoom form sends the recording type it holds, audio_only unless
\* another one is chosen
Next ==
  \/ Progress(Transcripts, RawTaskLists, FailureResponses,
              {"created", "createdNoKey", "rejected", "timeout", "thrown"})
  \/ canStartNewFlow /\ StartUpload
  \/ canStartNewFlow /\ \E src \in Sources, ok \in BOOLEAN :
       StartImport(src, ok, IF src = "zoom" THEN <<"audio_only">> ELSE Undefined)
  \/ canSubmit /\ \E config \in PageConfigs : SubmitToJira(config)
  \/ canReset /\ Reset
  \/ canClearHistory /\ ClearHistory

Spec == Init /\ [][Next]_vars

\* the hook on its own: every action callable at any time, calls overlap;
\* the services answer from narrower sets (at most one task, its summary
\* and its labels strings), the Zoom payload comes without a recording type
HookTranscripts == {<<"t">>}
HookTaskLists ==
  {q \in RawTaskLists :
     /\ Len(q) <= 1
     /\ \A i \in 1..Len(q) :
          /\ IsText(q[i].summary)
          /\ isArray(q[i].labels) => \A j \in 1..Len(q[i].labels) : IsText(q[i].labels[j])}
HookFailures == {resp \in FailureResponses : resp.kind = "detail"}
HookOutcomes == {"created", "rejected"}

NextHook ==
  \/ Progress(HookTranscripts, HookTaskLists, HookFailures, HookOutcomes)
  \/ StartUpload
  \/ \E ok \in BOOLEAN : StartImport("zoom", ok, Undefined)
  \/ \E config \in PageConfigs : SubmitToJira(config)
  \/ Reset
  \/ ClearHistory

SpecHook == Init /\ [][NextHook]_vars

\* ---- the application opened on a history that earlier sessions left in
\* localStorage: the records as persistMeeting wrote them, newest first
\* what the earlier sessions wrote: n records, the newest first
StoredBlob(n) ==
  LET StoredTranscripts ==
        << <<"m1">>, <<"m2">>, <<"m3">>, <<"m4">>, <<"t">>, <<"m6">>, <<"m7">>, <<"m8">>,
           <<"m9">>, <<"m10">> >>
      StoredRecord(id) ==
        createMeetingSummary("upload", StoredTranscripts[id],
                             <<[summary |-> <<"a">>,
                                confidence |-> [type |-> "number", tenths |-> 5],
                                labels |-> <<>>]>>,
                             RunMetadata("upload", Undefined), id)
  IN IF n = 0 THEN NullBlob
     ELSE StoredAfterWrite(NullBlob, [i \in 1..n |-> StoredRecord(n + 1 - i)])

InitStore ==
  /\ state = initialState
  /\ history = <<>>
  /\ activeMeetingId = NoId
  /\ \/ \E n \in {0, 9, 10} : storage = StoredBlob(n) /\ clock = n + 1
     \/ storage \in {UnavailableBlob, ThrowingBlob, UnparsableBlob} /\ clock = 1
  /\ mounted = FALSE
  /\ runs = [r \in 1..MaxStarts |-> NoRun]
  /\ syncs = [k \in 1..MaxSyncs |-> NoSync]
  /\ starts = 0
  /\ submits = 0
  /\ apiCalls = 0
  /\ trackerCalls = 0
  /\ last = Event("init", Null, <<>>, "", FALSE)

\* the configurations that differ from ValidConfig in at most one field
NextStore ==
  LET RouteConfigs ==
        {[ValidConfig EXCEPT !.baseUrl = u] :
           u \in {<<" ", "jira.example.com">>, <<"HTTP://", "jira.example.com", " ">>,
                  <<"https://">>, <<"jira", " ", "example.com">>, <<" ">>, Undefined}}
          \cup {[ValidConfig EXCEPT !.email = e] :
                  e \in {<<"me@example.com", " ">>, <<" ">>, Undefined}}
          \cup {[ValidConfig EXCEPT !.token = t] : t \in {<<"secret">>, <<>>}}
          \cup {[ValidConfig EXCEPT !.projectKey = key] :
                  key \in {<<"a", " ", "b", "1">>, <<"A">>, <<"1", "a">>, <<"a", "-", "b">>,
                           <<" ">>, Undefined}}
  IN \/ Progress(Transcripts, HookTaskLists, HookFailures, HookOutcomes)
     \/ canStartNewFlow /\ StartUpload
     \/ canStartNewFlow /\ \E ok \in BOOLEAN : StartImport("zoom", ok, <<"audio_only">>)
     \/ canSubmit /\ \E config \in RouteConfigs : SubmitToJira(config)
     \/ canReset /\ Reset
     \/ canClearHistory /\ ClearHistory

SpecStore == InitStore /\ [][NextStore]_vars

\* ---- the hook from the end of a first submitToJira call on an uploaded
\* meeting: one task, its issue created; the counters count the calls made
\* from here on
SyncedTasks ==
  extractTasks(<<[summary |-> <<"a", " ">>, confidence |-> [type |-> "number", tenths |-> 17],
                  labels |-> UndefinedTexts]>>)
SyncedResults == <<RouteTaskResult(SyncedTasks[1], "created")>>

SyncedHistory ==
  LET summary == createMeetingSummary("upload", <<"u">>, SyncedTasks,
                                      RunMetadata("upload", Undefined), 1)
      created == writeHistory(NullBlob, persistMeetingSummary(summary, <<>>))
  IN writeHistory(NullBlob, replaceMeetingSummary(summary.id, SyncedResults, created))

InitResync ==
  /\ state = DoneState(SubmittingState(ReadyState(
                ExtractingState(TranscribingState(UploadingState), <<"u">>),
                SyncedTasks)), SyncedResults)
  /\ history = SyncedHistory
  /\ activeMeetingId = 1
  /\ storage = StoredAfterWrite(NullBlob, SyncedHistory)
  /\ mounted = TRUE
  /\ clock = 2
  /\ runs = [r \in 1..MaxStarts |-> NoRun]
  /\ syncs = [k \in 1..MaxSyncs |-> NoSync]
  /\ starts = 0
  /\ submits = 0
  /\ apiCalls = 0
  /\ trackerCalls = 0
  /\ last = Event("init", Null, <<>>, "", FALSE)

\* Mount is not a step here: the hook is mounted already
NextResync ==
  \/ \E r \in 1..MaxStarts :
       \/ UploadTranscribing(r)
       \/ \E t \in HookTranscripts : WhisperOk(r, t)
       \/ \E raw \in HookTaskLists : NlpOk(r, raw)
  \/ \E k \in 1..MaxSyncs :
       \/ SyncFetchFail(k, "Failed to fetch")
       \/ RouteRejectConfig(k)
       \/ RouteStart(k)
       \/ RouteInvalidTask(k)
       \/ RouteIssue(k)
       \/ \E o \in HookOutcomes : RouteSettle(k, o)
       \/ SyncResponse(k)
  \/ StartUpload
  \/ \E config \in PageConfigs : SubmitToJira(config)
  \/ Reset
  \/ ClearHistory

SpecResync == InitResync /\ [][NextResync]_vars

\* ---- the extraction client (lib/nlp) as /api/extract-tasks invokes it
\* the retry count when NLP_SERVICE_RETRY_COUNT is not set.  A configured
\* count is the record Number(...) gives: nan for a text that is no number,
\* n for the number otherwise
RETRY_COUNT == 2

\* the status of an NLPServiceError built without one
NoStatus == 0

\* new NLPServiceError(message, status)
NLPServiceError(message, status) ==
  [name |-> "NLPServiceError", message |-> message, status |-> status]

\* an error of another class, as fetch or response.json() throws it
OtherError(name, message) == [name |-> name, message |-> message, status |-> NoStatus]

\* lastError before any attempt has failed
NoError == [name |-> "none", message |-> "", status |-> NoStatus]

\* the error one attempt ends with: fetchWithTimeout turns an abort into an
\* NLPServiceError and throws any other rejection on; a non-success status
\* is thrown with its code; a body that cannot be read throws in json()
AttemptError(answer) ==
  CASE answer.kind = "timeout" ->
         NLPServiceError("NLP service response timed out", NoStatus)
    [] answer.kind = "network" -> OtherError("TypeError", "fetch failed")
    [] answer.kind = "status" ->
         NLPServiceError(IF answer.status = 500 THEN "NLP service error: 500"
                         ELSE "NLP service error: 503", answer.status)
    [] answer.kind = "unreadable" -> OtherError("SyntaxError", "Unexpected token")
    [] OTHER -> NoError

\* mutant: whatever the last error, the generic one is thrown
ThrownError_AlwaysGeneric(lastError) ==
  NLPServiceError("could not reach the NLP service", NoStatus)

\* extractTasks after the loop: the error it throws
ThrownError(lastError) ==
  IF lastError.name = "NLPServiceError" THEN lastError
  ELSE NLPServiceError("could not reach the NLP service", NoStatus)

\* mutant: a failed attempt is always followed by another one
AfterFailure_NoLimit(call, answer) ==
  [call EXCEPT !.answer = answer.kind,
               !.lastError = AttemptError(answer),
               !.attempt = @ + 1,
               !.calls = @ + 1]

\* the catch block of the loop and what follows it: the error is kept;
\* after the last attempt the loop ends and the call throws, otherwise the
\* next iteration sends the next request
AfterFailure(call, answer) ==
  IF (~call.retry.nan /\ call.attempt = call.retry.n)
       \/ ~(~call.retry.nan /\ call.attempt + 1 <= call.retry.n)
  THEN [call EXCEPT !.answer = answer.kind,
                    !.lastError = AttemptError(answer),
                    !.pc = "threw",
                    !.thrown = ThrownError(AttemptError(answer))]
  ELSE [call EXCEPT !.answer = answer.kind,
                    !.lastError = AttemptError(answer),
                    !.attempt = @ + 1,
                    !.calls = @ + 1]

\* extractTasks(transcript) is called in a process started with the retry
\* count retry.  When the loop condition 0 <= RETRY_COUNT holds it sends its
\* first request; when it does not (a negative count, NaN) the loop body
\* never runs and the call throws at once.  An invocation holds the loop
\* counter, the requests sent so far, the last answer and error, and what
\* the call returned or threw
ExtractInvoke(transcript, retry) ==
  /\ starts < MaxStarts
  /\ runs' = [runs EXCEPT ![starts + 1] =
                IF ~retry.nan /\ 0 <= retry.n
                THEN [kind |-> "extract", pc |-> "awaiting", transcript |-> transcript,
                      stale |-> FALSE, retry |-> retry, attempt |-> 0, calls |-> 1,
                      answer |-> "none", lastError |-> NoError,
                      result |-> UndefinedList, thrown |-> NoError]
                ELSE [kind |-> "extract", pc |-> "threw", transcript |-> transcript,
                      stale |-> FALSE, retry |-> retry, attempt |-> 0, calls |-> 0,
                      answer |-> "none", lastError |-> NoError,
                      result |-> UndefinedList, thrown |-> ThrownError(NoError)]]
  /\ starts' = starts + 1
  /\ last' = Event("extractInvoke", transcript, <<>>, "", FALSE)
  /\ UNCHANGED <<state, history, activeMeetingId, storage, mounted, clock, syncs,
                 submits, apiCalls, trackerCalls>>

\* the request of the current attempt ends: when the answer was read the
\* call returns the tasks, labels defaulted
ExtractAnswer(r, answer) ==
  /\ runs[r].pc = "awaiting"
  /\ runs' = [runs EXCEPT ![r] = IF answer.kind = "ok"
                                  THEN [runs[r] EXCEPT !.answer = answer.kind,
                                                       !.pc = "returned",
                                                       !.result = extractTasks(answer.raw)]
                                  ELSE AfterFailure(runs[r], answer)]
  /\ last' = [Event("extractAnswer", runs[r].transcript, answer.raw, "", FALSE)
                EXCEPT !.kind = answer.kind]
  /\ UNCHANGED <<state, history, activeMeetingId, storage, mounted, clock, syncs,
                 starts, submits, apiCalls, trackerCalls>>

\* what the NLP service can answer to one request
\* NLP_SERVICE_RETRY_COUNT unset, "0", "-1" or "many"
NextExtract ==
  LET ExtractAnswers ==
        {[kind |-> "ok", status |-> 200, raw |-> q] : q \in HookTaskLists}
          \cup {[kind |-> "status", status |-> c, raw |-> <<>>] : c \in {500, 503}}
          \cup {[kind |-> k, status |-> NoStatus, raw |-> <<>>] : k \in {"timeout", "network"}}
          \cup {[kind |-> "unreadable", status |-> 200, raw |-> <<>>]}
  IN \/ \E t \in HookTranscripts,
           retry \in {[nan |-> FALSE, n |-> RETRY_COUNT], [nan |-> FALSE, n |-> 0],
                      [nan |-> FALSE, n |-> 0 - 1], [nan |-> TRUE, n |-> 0]} :
          ExtractInvoke(t, retry)
     \/ \E r \in 1..MaxStarts, answer \in ExtractAnswers : ExtractAnswer(r, answer)

SpecExtract == Init /\ [][NextExtract]_vars

\* ---- the Zoom client (lib/integrations/zoom) as the ingest route calls it
\* selectRecordingFile returning null
NullFile == [id |-> 0, recording_type |-> "null"]

\* recording_type of a file; "undefined" when the file has none
RecordingTypes == {"audio_only", "shared_screen_with_speaker_view", "undefined"}

\* files.find((file) => file.recording_type === recordingType)
FindByType(files, recordingType) ==
  LET found == SelectSeq(files, LAMBDA file : file.recording_type = recordingType)
  IN IF found = <<>> THEN NullFile ELSE Head(found)

\* mutant: the audio-only file is preferred to the requested one
selectRecordingFile_AudioFirst(recording_files, recordingType) ==
  LET files == IF recording_files = UndefinedList THEN <<>> ELSE recording_files
      preferred == IF recordingType \in {"undefined", ""} THEN NullFile
                   ELSE FindByType(files, recordingType)
      audioOnly == FindByType(files, "audio_only")
  IN IF audioOnly # NullFile THEN audioOnly
     ELSE IF preferred # NullFile THEN preferred
     ELSE IF files = <<>> THEN NullFile ELSE files[1]

selectRecordingFile(recording_files, recordingType) ==
  LET files == IF recording_files = UndefinedList THEN <<>> ELSE recording_files
      preferred == IF recordingType \in {"undefined", ""} THEN NullFile
                   ELSE FindByType(files, recordingType)
      audioOnly == FindByType(files, "audio_only")
  IN IF preferred # NullFile THEN preferred
     ELSE IF audioOnly # NullFile THEN audioOnly
     ELSE IF files = <<>> THEN NullFile ELSE files[1]

\* fetchZoomRecording(payload) is called and requests the recordings; a
\* call holds the variant asked for, the files of the answer and the file
\* chosen
FetchZoomRecording(recordingType) ==
  /\ starts < MaxStarts /\ InFlight < MaxInFlight
  /\ runs' = [runs EXCEPT ![starts + 1] =
                [kind |-> "zoomFetch", pc |-> "metadata", transcript |-> Null,
                 stale |-> FALSE, recordingType |-> recordingType, files |-> <<>>,
                 recording |-> NullFile]]
  /\ starts' = starts + 1
  /\ last' = Event("fetchZoomRecording", Null, <<>>, "", FALSE)
  /\ UNCHANGED <<state, history, activeMeetingId, storage, mounted, clock, syncs,
                 submits, apiCalls, trackerCalls>>

\* the Zoom API answered with a status that is not ok: the call throws
ZoomLookupFail(r) ==
  /\ runs[r].pc = "metadata"
  /\ runs' = [runs EXCEPT ![r] = NoRun]
  /\ last' = Event("zoomLookupFail", Null, <<>>, "Zoom API error 404: not found", FALSE)
  /\ UNCHANGED <<state, history, activeMeetingId, storage, mounted, clock, syncs,
                 starts, submits, apiCalls, trackerCalls>>

\* the Zoom API answered with the recordings: a file is chosen and its
\* download requested, or the call throws for want of a file
ZoomLookupAnswer(r, recording_files) ==
  /\ runs[r].pc = "metadata"
  /\ LET recording == selectRecordingFile(recording_files, runs[r].recordingType)
     IN IF recording = NullFile
        THEN /\ runs' = [runs EXCEPT ![r] = NoRun]
             /\ last' = Event("zoomNoRecording", Null, recording_files,
                              "no recording of the meeting found in Zoom", FALSE)
        ELSE /\ runs' = [runs EXCEPT ![r].pc = "download",
                                     ![r].files = recording_files,
                                     ![r].recording = recording]
             /\ last' = Event("zoomLookupOk", Null, recording_files, "", FALSE)
  /\ UNCHANGED <<state, history, activeMeetingId, storage, mounted, clock, syncs,
                 starts, submits, apiCalls, trackerCalls>>

\* the download ended: the call returns the data or throws
ZoomDownloadAnswer(r, ok) ==
  /\ runs[r].pc = "download"
  /\ runs' = [runs EXCEPT ![r] = NoRun]
  /\ last' = Event(IF ok THEN "zoomReturned" ELSE "zoomDownloadFail", Null,
                   runs[r].files, IF ok THEN "" ELSE "Zoom download error 403", FALSE)
  /\ UNCHANGED <<state, history, activeMeetingId, storage, mounted, clock, syncs,
                 starts, submits, apiCalls, trackerCalls>>

\* recording_files of an answer: the files numbered in their order, or
\* the field missing
\* payload.recordingType is a variant, another string, or "undefined" when
\* the payload has none
NextZoom ==
  LET RecordingLists ==
        {[i \in 1..Len(types) |-> [id |-> i, recording_type |-> types[i]]] :
           types \in SeqsUpTo(RecordingTypes, MaxFiles)} \cup {UndefinedList}
  IN \/ \E recordingType \in RecordingTypes \cup {"", "chat_file"} :
          FetchZoomRecording(recordingType)
     \/ \E r \in 1..MaxStarts :
          \/ ZoomLookupFail(r)
          \/ \E files \in RecordingLists : ZoomLookupAnswer(r, files)
          \/ \E ok \in BOOLEAN : ZoomDownloadAnswer(r, ok)

SpecZoom == Init /\ [][NextZoom]_vars

resolveDueDate(item, config) ==
  IF config.syncDueDate = "false" THEN Undefined ELSE OrElse(item.due, Undefined)

resolvePriority(item, config) ==
  IF config.syncPriority = "false" THEN OrElse(config.defaultPriority, Undefined)
  ELSE OrElse(OrElse(item.priority, config.defaultPriority), Undefined)

\* createJiraTask: the fields of the request that depend on the toggles; a
\* field is set only when its value is truthy.  threw is the message of the
\* TypeError the building of the request ends with, in the order of the
\* calls: item.summary.slice on a summary that is no string,
\* buildDescription reading the length of missing labels or joining labels
\* that are a non-empty string, resolveAssignee, normaliseLabels; Null when
\* the request gets built
IssueFields(item, config) ==
  LET assignee == resolveAssignee(item, config)
      labels == normaliseLabels(item, config)
  IN [assignee |-> assignee,
      duedate |-> IF Falsy(resolveDueDate(item, config)) THEN Undefined
                  ELSE resolveDueDate(item, config),
      priority |-> IF Falsy(resolvePriority(item, config)) THEN Undefined
                   ELSE resolvePriority(item, config),
      labels |-> labels,
      threw |-> IF item.summary = Null
                THEN <<"Cannot read properties of null (reading 'slice')">>
                ELSE IF item.summary = Undefined
                THEN <<"Cannot read properties of undefined (reading 'slice')">>
                ELSE IF ~IsText(item.summary)
                THEN <<"item.summary.slice is not a function">>
                ELSE IF item.labels = UndefinedTexts
                THEN <<"Cannot read properties of undefined (reading 'length')">>
                ELSE IF ~isArray(item.labels) /\ item.labels[2] # <<>>
                THEN <<"item.labels.join is not a function">>
                ELSE IF assignee.kind = "throws TypeError" THEN assignee.value
                ELSE IF Len(labels) = 2 /\ labels[1] = <<"throws TypeError">> THEN labels[2]
                ELSE Null]

\* the route, its configuration sanitised and validated, calls
\* createJiraTask for a task; the loop has one call in flight at a time.
\* A call holds the item, the sanitised configuration and the fields of
\* the request in flight.  When the building of the request throws, no
\* request is sent and the catch block of the route makes the failed result
RouteCreateIssue(k, item, config) ==
  /\ \A j \in 1..MaxSyncs : syncs[j].pc = "none"
  /\ trackerCalls < MaxTasks
  /\ validateJiraConfig(sanitizeJiraConfig(config)) = NullMessage
  /\ LET fields == IssueFields(item, sanitizeJiraConfig(config))
     IN IF fields.threw # Null
        THEN /\ last' = [Event("createJiraTaskThrew", Null, <<>>, "", FALSE)
                           EXCEPT !.outcomes = <<FailedResult(item.summary, fields.threw)>>,
                                  !.raw = <<item>>]
             /\ UNCHANGED <<syncs, trackerCalls>>
        ELSE /\ syncs' = [syncs EXCEPT ![k] =
                            [pc |-> "tracker", item |-> item,
                             config |-> sanitizeJiraConfig(config), fields |-> fields]]
             /\ trackerCalls' = trackerCalls + 1
             /\ last' = Event("createJiraTask", Null, <<>>, "", FALSE)
  /\ UNCHANGED <<state, history, activeMeetingId, storage, mounted, clock, runs,
                 starts, submits, apiCalls>>

\* the tracker answered: createJiraTask returns its result
TrackerAnswer(k, outcome) ==
  /\ syncs[k].pc = "tracker"
  /\ syncs' = [syncs EXCEPT ![k] = NoSync]
  /\ last' = [Event("createJiraTaskReturned", Null, <<>>, "", FALSE)
                EXCEPT !.outcomes = <<createJiraTask(syncs[k].item, outcome)>>]
  /\ UNCHANGED <<state, history, activeMeetingId, storage, mounted, clock, runs,
                 starts, submits, apiCalls, trackerCalls>>

\* ---- the tracker client (lib/jira) as the route calls it for one task
\* an ActionItem with the fields the tracker request is built from
\* valid configurations with every choice of defaults and toggles
NextIssue ==
  LET ActionItems ==
        {[summary |-> <<"a">>, assignee |-> a, due |-> d, priority |-> p, labels |-> l] :
           a \in {Null, <<"bob", " ">>, <<" ">>},
           d \in {Null, <<"2025-01-31">>},
           p \in {Undefined, <<"High">>, <<>>},
           l \in {<<>>, << <<"x", " ", "y">>, <<"m">> >>}}
          \cup {[summary |-> <<"a">>, assignee |-> a, due |-> Null, priority |-> Undefined,
                 labels |-> l] :
                  a \in {Null, <<"number", "7">>},
                  l \in {<< <<"x">>, Null >>, << <<"number", "5">> >>, UndefinedTexts,
                         << <<"typeof string">>, <<"x", "y">> >>}}
      SyncConfigs ==
        {[ValidConfig EXCEPT !.defaultAssignee = a, !.defaultPriority = p,
                             !.defaultLabels = l, !.syncAssignee = ta, !.syncDueDate = td,
                             !.syncPriority = tp, !.syncLabels = tl] :
           a \in {Undefined, <<"lead@example.com", " ">>},
           p \in {Undefined, <<"Low">>},
           l \in {UndefinedTexts, << <<"m">>, <<"team">> >>},
           ta \in {"true", "false", "undefined"}, td \in {"true", "false", "undefined"},
           tp \in {"true", "false", "undefined"}, tl \in {"true", "false", "undefined"}}
          \cup {[ValidConfig EXCEPT !.defaultLabels = l, !.syncLabels = tl] :
                  l \in {<< <<"m">>, Null, <<" ", "big", " ", "team">> >>,
                         << <<"typeof string">>, <<" ", "m", ",", ",", "big", " ", "team">> >>,
                         << <<"typeof string">>, <<>> >>},
                  tl \in {"true", "false"}}
  IN \/ \E k \in 1..MaxSyncs, item \in ActionItems, config \in SyncConfigs :
          RouteCreateIssue(k, item, config)
     \/ \E k \in 1..MaxSyncs, outcome \in HookOutcomes : TrackerAnswer(k, outcome)

SpecIssue == Init /\ [][NextIssue]_vars

\* ---- the local transcription runner (runWhisperCpp): one invocation per
\* slot of runs.  completed and timeoutHandle are the locals of the promise
\* executor, timer is the timer behind the handle (none, pending, fired or
\* cleared), settles lists the calls of resolve and reject in their order.
\* The stderr listener, which only collects the text of the exit message,
\* is left out

\* cleanup
cleanup(run) ==
  IF run.timeoutHandle
  THEN [run EXCEPT !.timer = IF @ = "pending" THEN "cleared" ELSE @,
                   !.timeoutHandle = FALSE]
  ELSE run

\* mutant: the rejection is not guarded by completed
rejectOnce_NoGuard(run, error) ==
  [cleanup(run) EXCEPT !.completed = TRUE, !.settles = Append(@, error)]

\* rejectOnce
rejectOnce(run, error) ==
  IF run.completed THEN run
  ELSE [cleanup(run) EXCEPT !.completed = TRUE, !.settles = Append(@, error)]

\* runWhisperCpp is called: the child is spawned, the listeners are
\* registered and the timer is started when timeoutMs is a positive number
\* (0 stands for undefined as well)
RunWhisperCpp(timeoutMs) ==
  /\ starts < MaxStarts
  /\ runs' = [runs EXCEPT ![starts + 1] =
                [kind |-> "whispercpp", pc |-> "spawned", transcript |-> Null,
                 stale |-> FALSE, completed |-> FALSE,
                 timeoutHandle |-> (timeoutMs > 0),
                 timer |-> IF timeoutMs > 0 THEN "pending" ELSE "none",
                 killed |-> FALSE, errorEmitted |-> FALSE, closeEmitted |-> FALSE,
                 settles |-> <<>>]]
  /\ starts' = starts + 1
  /\ last' = Event("runWhisperCpp", Null, <<>>, "", FALSE)
  /\ UNCHANGED <<state, history, activeMeetingId, storage, mounted, clock, syncs,
                 submits, apiCalls, trackerCalls>>

\* child.on("error")
ChildError(r) ==
  /\ runs[r].kind = "whispercpp" /\ ~runs[r].errorEmitted
  /\ runs' = [runs EXCEPT ![r] =
                [rejectOnce(runs[r], "failed to start") EXCEPT !.errorEmitted = TRUE]]
  /\ last' = Event("childError", Null, <<>>, "", FALSE)
  /\ UNCHANGED <<state, history, activeMeetingId, storage, mounted, clock, syncs,
                 starts, submits, apiCalls, trackerCalls>>

\* child.on("close"): code is "0", "1", or "null" for a child ended by a
\* signal
ChildClose(r, code) ==
  /\ runs[r].kind = "whispercpp" /\ ~runs[r].closeEmitted
  /\ runs' = [runs EXCEPT ![r] =
                IF runs[r].completed THEN [runs[r] EXCEPT !.closeEmitted = TRUE]
                ELSE [cleanup(runs[r]) EXCEPT
                        !.closeEmitted = TRUE,
                        !.completed = TRUE,
                        !.settles = Append(@, IF code = "0" THEN "resolve"
                                              ELSE "exited with code")]]
  /\ last' = [Event("childClose", Null, <<>>, "", FALSE) EXCEPT !.cause = code]
  /\ UNCHANGED <<state, history, activeMeetingId, storage, mounted, clock, syncs,
                 starts, submits, apiCalls, trackerCalls>>

\* the callback of setTimeout: the child is killed, then rejectOnce
TimerFire(r) ==
  /\ runs[r].kind = "whispercpp" /\ runs[r].timer = "pending"
  /\ runs' = [runs EXCEPT ![r] =
                rejectOnce([runs[r] EXCEPT !.timer = "fired", !.killed = TRUE],
                           "timed out")]
  /\ last' = Event("timerFire", Null, <<>>, "", FALSE)
  /\ UNCHANGED <<state, history, activeMeetingId, storage, mounted, clock, syncs,
                 starts, submits, apiCalls, trackerCalls>>

\* whisperCppTimeoutMs is undefined or the default of five minutes
NextWhisper ==
  \/ \E timeoutMs \in {0, 300000} : RunWhisperCpp(timeoutMs)
  \/ \E r \in 1..MaxStarts :
       \/ ChildError(r)
       \/ \E code \in {"0", "1", "null"} : ChildClose(r, code)
       \/ TimerFire(r)

SpecWhisper == Init /\ [][NextWhisper]_vars

\* ---- the application opened on a history whose one record was written by
\* another hand: the labels of its task are any list of strings and other
\* values (null stands for an element that is not a string), or no list
InitLoad ==
  /\ state = initialState
  /\ history = <<>>
  /\ activeMeetingId = NoId
  /\ \E labels \in SeqsUpTo({<<" ", "Bug", " ">>, <<"bug">>, <<"a", " ", " ", "b">>,
                              <<"a", "-", "b">>, <<" ">>, Null}, MaxLabels)
                      \cup {UndefinedTexts} :
       storage = <<[id |-> 1, source |-> "upload", createdAt |-> 1,
                    transcript |-> <<"m1">>, transcriptPreview |-> <<"m1">>,
                    tasks |-> <<[summary |-> <<"a">>,
                                 confidence |-> [type |-> "number", tenths |-> 5],
                                 labels |-> labels]>>,
                    metadata |-> UndefinedList, jiraResults |-> UndefinedList]>>
  /\ mounted = FALSE
  /\ clock = 2
  /\ runs = [r \in 1..MaxStarts |-> NoRun]
  /\ syncs = [k \in 1..MaxSyncs |-> NoSync]
  /\ starts = 0
  /\ submits = 0
  /\ apiCalls = 0
  /\ trackerCalls = 0
  /\ last = Event("init", Null, <<>>, "", FALSE)

\* the history is loaded as the page mounts and cleared from the history
\* panel
NextLoad ==
  \/ Mount
  \/ canClearHistory /\ ClearHistory

SpecLoad == InitLoad /\ [][NextLoad]_vars

\* ---- the application opened on records that were not written by this
\* version of the store: fields missing, of the wrong type (a number for the
\* preview among them), padded, blank, out of range or too long
InitMalformed ==
  LET Long(c) == [i \in 1..PREVIEW_LIMIT + 20 |-> IF i = PREVIEW_LIMIT THEN " " ELSE c]
      NoFields == [id |-> 1, source |-> "skype", createdAt |-> 1,
                   transcript |-> <<" ", "m1", " ">>, transcriptPreview |-> Undefined,
                   tasks |-> UndefinedList, metadata |-> UndefinedList,
                   jiraResults |-> UndefinedList]
      LongTranscript ==
        [id |-> 2, source |-> "zoom", createdAt |-> 2,
         transcript |-> <<" ">> \o Long("a") \o <<" ">>, transcriptPreview |-> Null,
         tasks |-> <<[summary |-> Null, confidence |-> [type |-> "NaN", tenths |-> 0],
                      labels |-> UndefinedTexts],
                     [summary |-> <<" ", "s">>, confidence |-> [type |-> "number", tenths |-> 0 - 3],
                      labels |-> << <<"a", " ", " ", "b">>, Null, <<"a", "-", "b">>, <<" ">> >>]>>,
         metadata |-> <<[key |-> "k", value |-> <<" ">>], [key |-> "f", value |-> <<"v", " ">>],
                        [key |-> "n", value |-> <<"number", "5">>],
                        [key |-> "x", value |-> <<"number", "NaN">>]>>,
         jiraResults |-> <<[summary |-> <<" ">>, success |-> TRUE, issueKey |-> <<"KEY-1">>,
                            issueUrl |-> Undefined, error |-> Undefined],
                           [summary |-> <<"s", " ">>, success |-> FALSE, issueKey |-> <<" ">>,
                            issueUrl |-> Null, error |-> <<" ", "denied">>],
                           [summary |-> <<"number", "0">>, success |-> FALSE,
                            issueKey |-> <<"number", "1.5">>, issueUrl |-> Undefined,
                            error |-> <<"number", "Infinity">>],
                           [summary |-> <<"k">>, success |-> TRUE, issueKey |-> <<"KEY-1">>,
                            issueUrl |-> Undefined, error |-> <<"denied">>]>>]
      LongPreview ==
        [id |-> 1, source |-> "upload", createdAt |-> 1,
         transcript |-> <<"t", " ">>, transcriptPreview |-> <<" ">> \o Long("p"),
         tasks |-> <<[summary |-> <<"a">>, confidence |-> [type |-> "number", tenths |-> 50],
                      labels |-> <<>>]>>,
         metadata |-> <<[key |-> "k", value |-> <<" ">>]>>,
         jiraResults |-> <<[summary |-> Undefined, success |-> TRUE, issueKey |-> Undefined,
                            issueUrl |-> Undefined, error |-> Undefined]>>]
      NumberPreview ==
        [id |-> 3, source |-> "upload", createdAt |-> 3,
         transcript |-> <<"m1">>, transcriptPreview |-> <<"number", "5">>,
         tasks |-> <<[summary |-> <<"a">>, confidence |-> [type |-> "number", tenths |-> 5],
                      labels |-> <<>>]>>,
         metadata |-> UndefinedList, jiraResults |-> UndefinedList]
      EmptyPreview ==
        [id |-> 2, source |-> "google", createdAt |-> 2,
         transcript |-> <<"m2">>, transcriptPreview |-> <<>>,
         tasks |-> <<[summary |-> <<"a">>, confidence |-> [type |-> "string", tenths |-> 5],
                      labels |-> << <<"x">>, <<"x", " ">> >>]>>,
         metadata |-> <<>>,
         jiraResults |-> <<>>]
  IN /\ state = initialState
     /\ history = <<>>
     /\ activeMeetingId = NoId
     /\ storage \in {<<NoFields>>, <<LongTranscript, NoFields>>, <<EmptyPreview, LongPreview>>,
                      <<LongTranscript, LongPreview>>, <<NumberPreview>>,
                      <<NoFields, NumberPreview>>}
     /\ clock = 4
     /\ mounted = FALSE
     /\ runs = [r \in 1..MaxStarts |-> NoRun]
     /\ syncs = [k \in 1..MaxSyncs |-> NoSync]
     /\ starts = 0
     /\ submits = 0
     /\ apiCalls = 0
     /\ trackerCalls = 0
     /\ last = Event("init", Null, <<>>, "", FALSE)

SpecMalformed == InitMalformed /\ [][NextStore]_vars

\* ------------------------------------------------------------------ claims
\* what the extraction service returned, labels defaulted to [] when absent
LabelsDefaulted(raw) ==
  [i \in 1..Len(raw) |->
     [raw[i] EXCEPT !.labels = IF @ = UndefinedTexts THEN <<>> ELSE @]]

StartSucceeded == last.op \in {"nlpOk", "ingestOk"}

\* C1: when fetch, transcription and extraction all succeed, the run ends
\* with phase Ready, a non-null transcript equal to the transcription
\* result, and tasks equal, in order, to the extraction result with missing
\* labels defaulted to the empty list.
C1_SuccessfulStartIsReady ==
  StartSucceeded =>
    /\ state.status = "ready"
    /\ state.transcript # Null
    /\ state.transcript = last.text
    /\ state.tasks = LabelsDefaulted(last.raw)

\* an upload run ended with two tasks, one of which came without labels
C1_Witness ==
  /\ last.op = "nlpOk"
  /\ Len(state.tasks) = 2
  /\ \E i \in 1..Len(last.raw) : last.raw[i].labels = UndefinedTexts
  /\ state.status = "ready"

NonTerminal == {"idle", "uploading", "transcribing", "extracting", "ready", "submittingJira"}

ChainEdges ==
  {<<"idle", "uploading">>, <<"uploading", "transcribing">>,
   <<"transcribing", "extracting">>, <<"extracting", "ready">>,
   <<"ready", "submittingJira">>, <<"submittingJira", "done">>}
    \cup {<<p, "error">> : p \in NonTerminal}

\* a start opens a new run, whose phase begins at Idle
RunPhaseBefore ==
  IF last'.op \in {"startUpload", "startImport"} THEN "idle" ELSE state.status

\* C2 as stated: for every kind of start input the phase of a run changes
\* only along Idle -> Uploading -> Transcribing -> Extracting -> Ready ->
\* SyncingTracker -> Done or to Failed from a non-terminal phase (a reset
\* ends the run).
C2_PhaseFollowsChain ==
  [][(state'.status # state.status \/ last'.op \in {"startUpload", "startImport"})
       => \/ last'.op = "reset"
          \/ <<RunPhaseBefore, state'.status>> \in ChainEdges]_vars

ImportOps == {"startImport", "ingestFetchOk", "ingestTranscribeOk", "ingestOk", "ingestFail"}

\* C2 amended: a local file follows the chain; a Zoom or Google Drive start
\* goes from Idle straight to Transcribing and from Transcribing straight to
\* Ready (Uploading and Extracting are not entered); Failed is entered from
\* non-terminal phases only; no other edge is taken.
C2_PhaseEdges ==
  [][(state'.status # state.status \/ last'.op \in {"startUpload", "startImport"})
       => \/ last'.op = "reset"
          \/ /\ last'.op \notin ImportOps
             /\ <<RunPhaseBefore, state'.status>> \in ChainEdges
          \/ /\ last'.op = "startImport"
             /\ <<RunPhaseBefore, state'.status>> = <<"idle", "transcribing">>
          \/ /\ last'.op = "ingestOk"
             /\ <<RunPhaseBefore, state'.status>> = <<"transcribing", "ready">>
          \/ /\ last'.op = "ingestFail"
             /\ <<RunPhaseBefore, state'.status>> = <<"transcribing", "error">>]_vars

\* a remote import reached Ready without passing Uploading or Extracting
C2_Witness ==
  /\ last.op = "ingestOk"
  /\ state.status = "ready"

StartFailed == {"whisperFail", "nlpFail", "ingestFail"}

\* C3: when fetch, transcription or extraction fails, the phase becomes
\* Failed, errorMessage is the message of the error, and transcript and
\* tasks keep the values they had when the failure happened.
C3_FailureKeepsPartialResults ==
  [][last'.op \in StartFailed
       => /\ state'.status = "error"
          /\ state'.errorMessage = last'.msg
          /\ state'.transcript = state.transcript
          /\ state'.tasks = state.tasks]_vars

\* extraction failed after the transcript had been obtained: it is still there
C3_Witness ==
  /\ last.op = "nlpFail"
  /\ state.status = "error"
  /\ state.transcript \in Transcripts
  /\ state.errorMessage = last.msg

SubmitOps == {"submitEmpty", "submitToJira"}

\* C4: submitSync with an empty task list sets the phase to Failed with the
\* validation message and sends no request (neither to the route nor to the
\* tracker).
C4_EmptySubmitFailsWithoutRequest ==
  [][(last'.op \in SubmitOps /\ Len(state.tasks) = 0)
       => /\ state'.status = "error"
          /\ state'.errorMessage = NoTasksMessage
          /\ apiCalls' = apiCalls
          /\ trackerCalls' = trackerCalls
          /\ syncs' = syncs]_vars

\* submit was called on a ready run without tasks
C4_Witness ==
  /\ last.op = "submitEmpty"
  /\ state.status = "error"
  /\ state.transcript \in Transcripts
  /\ state.tasks = <<>>

TrackerSucceeded(outcome) == outcome \in {"created", "createdNoKey"}

\* results[i] belongs to tasks[i] (it carries its summary, "" for a
\* summary that is null) and tells how the call for it ended
ResultsMatch(tasks, results, outcomes) ==
  /\ Len(results) <= Len(tasks)
  /\ Len(outcomes) = Len(results)
  /\ \A i \in 1..Len(results) :
       /\ results[i].summary = OrElse(tasks[i].summary, <<>>)
       /\ results[i].success = TrackerSucceeded(outcomes[i])

\* C5: the sync produces exactly one result per task, in task order, entry i
\* successful exactly when the tracker call for task i succeeded; a failed
\* task does not stop the tasks after it.
C5_OneResultPerTask ==
  /\ \A k \in 1..MaxSyncs :
       syncs[k].pc \in {"loop", "tracker"} =>
         /\ Len(syncs[k].results) = syncs[k].index - 1
         /\ ResultsMatch(syncs[k].tasks, syncs[k].results, syncs[k].outcomes)
  /\ last.op = "syncResponse" =>
       /\ Len(state.jiraResults) = Len(last.raw)
       /\ ResultsMatch(last.raw, state.jiraResults, last.outcomes)

\* the first of two tasks failed and the second was still created
C5_Witness ==
  /\ last.op = "syncResponse"
  /\ Len(state.jiraResults) = 2
  /\ ~state.jiraResults[1].success
  /\ last.outcomes[1] # "invalid"
  /\ state.jiraResults[2].success

SyncAttemptedAll ==
  /\ last.op = "syncResponse"
  /\ activeMeetingId # NoId
  /\ Len(state.jiraResults) > 0

\* C6 as stated: after a sync with an active record and at least one
\* result, the active record's syncResults equals RunState.syncResults.
C6_RecordEqualsRunState ==
  SyncAttemptedAll =>
    \E i \in 1..Len(history) :
      /\ history[i].id = activeMeetingId
      /\ history[i].jiraResults = state.jiraResults

\* C6 amended: the active record's syncResults equals the sanitised
\* RunState.syncResults: texts trimmed, entries whose summary is blank
\* dropped, the field absent when no entry is left.
C6_RecordEqualsSanitisedRunState ==
  SyncAttemptedAll =>
    \E i \in 1..Len(history) :
      /\ history[i].id = activeMeetingId
      /\ history[i].jiraResults = sanitiseJiraResults(state.jiraResults)

\* two results in RunState, one of them dropped from the record
C6_Witness ==
  /\ SyncAttemptedAll
  /\ Len(state.jiraResults) = 2
  /\ \E i \in 1..Len(history) :
       /\ history[i].id = activeMeetingId
       /\ history[i].jiraResults # UndefinedList
       /\ Len(history[i].jiraResults) = 1

\* C7: once every task was attempted the phase is Done; with a successful
\* result errorMessage stays null, with none errorMessage is set and
\* syncResults holds the failed entries.
C7_DoneAfterSync ==
  last.op = "syncResponse" =>
    /\ state.status = "done"
    /\ hasSuccess(state.jiraResults) => state.errorMessage = NullMessage
    /\ ~hasSuccess(state.jiraResults) =>
         /\ state.errorMessage \notin {NullMessage, ""}
         /\ Len(state.jiraResults) = Len(last.raw)
         /\ Len(state.jiraResults) > 0

\* every task failed: Done, with an error message and the failed entries
C7_Witness ==
  /\ last.op = "syncResponse"
  /\ state.status = "done"
  /\ Len(state.jiraResults) = 2
  /\ ~hasSuccess(state.jiraResults)
  /\ state.errorMessage = PartialFailureMessage

\* C8: reset in any phase sets RunState to the initial value: phase Idle,
\* null transcript, no tasks, no syncResults, null errorMessage, progress 0.
C8_ResetRestoresInitialState ==
  last.op = "reset" =>
    /\ state.status = "idle"
    /\ state.transcript = Null
    /\ state.tasks = <<>>
    /\ state.jiraResults = <<>>
    /\ state.errorMessage = NullMessage
    /\ state.percentage = 0
    /\ state = initialState

\* reset was called while an extraction was in flight
C8_Witness ==
  /\ last.op = "reset"
  /\ \E r \in 1..MaxStarts : runs[r].pc = "nlp"
  /\ state = initialState

\* C9: the late completion or failure of a call made before the latest
\* start or reset never changes phase, transcript, tasks, syncResults or
\* errorMessage.
C9_EarlierRunIsDiscarded ==
  [][last'.stale
       => /\ state'.status = state.status
          /\ state'.transcript = state.transcript
          /\ state'.tasks = state.tasks
          /\ state'.jiraResults = state.jiraResults
          /\ state'.errorMessage = state.errorMessage]_vars

RunSteps ==
  {"startUpload", "uploadTranscribing", "whisperOk", "startImport", "ingestFetchOk",
   "ingestTranscribeOk"}

\* C10: a run whose extraction returns no task creates no record: none of
\* its steps changes the history, the stored blob or the active record id.
C10_EmptyExtractionLeavesHistory ==
  [][(last'.op \in RunSteps \/ (last'.op \in {"nlpOk", "ingestOk"} /\ last'.raw = <<>>))
       => UNCHANGED <<history, storage, activeMeetingId>>]_vars

\* a run ended without tasks while the record of an earlier run is kept
C10_Witness ==
  /\ StartSucceeded
  /\ last.raw = <<>>
  /\ state.status = "ready"
  /\ Len(history) = 1
  /\ storage = history
  /\ activeMeetingId = history[1].id

\* a run ended with tasks: persistMeeting created a record and upserted it
RecordCreated == last'.op \in {"nlpOk", "ingestOk"} /\ last'.raw # <<>>

\* the (source, transcript) pair of the record the step creates
NewKey == [source |-> last'.source, transcript |-> last'.text]

SameKey(a, b) == a.source = b.source /\ a.transcript = b.transcript

HasKey(list, rec) == \E i \in 1..Len(list) : SameKey(list[i], rec)

WithoutKey(list, rec) == SelectSeq(list, LAMBDA item : ~SameKey(item, rec))

MostRecentFirst(list) ==
  \A i \in 1..Len(list), j \in 1..Len(list) : i < j => list[i].createdAt >= list[j].createdAt

\* C11: the history never holds more than 10 records and is ordered most
\* recent first; when an eleventh distinct record is upserted the new record
\* is put in front and the record dropped is the last, oldest one.
C11_HistoryCappedOldestEvicted ==
  [][/\ Len(history') <= HISTORY_LIMIT
     /\ MostRecentFirst(history')
     /\ (RecordCreated /\ Len(history) = HISTORY_LIMIT /\ ~HasKey(history, NewKey))
          => /\ Len(history') = HISTORY_LIMIT
             /\ history'[1].id = clock
             /\ SameKey(history'[1], NewKey)
             /\ Tail(history') = SubSeq(history, 1, HISTORY_LIMIT - 1)]_vars

\* ten records were stored and an eleventh, distinct one was created: the
\* oldest (id 1) is gone, the second oldest is now last
C11_Witness ==
  /\ last.op = "nlpOk"
  /\ Len(history) = HISTORY_LIMIT
  /\ history[1].id = HISTORY_LIMIT + 1
  /\ history[1].transcript = <<"u">>
  /\ history[HISTORY_LIMIT].id = 2
  /\ storage = history

NoDuplicateKeys(list) ==
  \A i \in 1..Len(list), j \in 1..Len(list) : SameKey(list[i], list[j]) => i = j

\* C12: upserting a record whose (source, transcript) pair is already in the
\* history replaces that record: the new record is first, it is the only
\* one with the pair, the other records follow in their old order; no two
\* records of the history ever share a pair.
C12_UpsertReplacesDuplicate ==
  [][/\ NoDuplicateKeys(history')
     /\ (RecordCreated /\ HasKey(history, NewKey))
          => /\ history'[1].id = clock
             /\ SameKey(history'[1], NewKey)
             /\ Tail(history') = WithoutKey(history, NewKey)
             /\ Len(history') = Len(history)]_vars

\* the upload of the meeting stored as fifth record replaced it: still ten
\* records, the oldest one kept
C12_Witness ==
  /\ last.op = "nlpOk"
  /\ Len(history) = HISTORY_LIMIT
  /\ history[1].id = HISTORY_LIMIT + 1
  /\ history[1].transcript = <<"t">>
  /\ history[HISTORY_LIMIT].id = 1
  /\ \A i \in 2..HISTORY_LIMIT : history[i].transcript # <<"t">>

\* the records localStorage holds, as they were written there
StoredRecords == readRawHistory(storage)

AllHaveTasks(list) == \A i \in 1..Len(list) : Len(list[i].tasks) >= 1

\* C13: after any sequence of load, start, submit, reset and clearHistory
\* every record of the history, in memory and in localStorage, has at least
\* one task; a run that ends with an empty task list leaves both as they
\* were.  The load gives a stored record whose tasks are missing or empty a
\* record with zero tasks, and the next upsert writes it back.
C13_NoRecordWithoutTasks ==
  [][/\ AllHaveTasks(history')
     /\ storage' \notin {NullBlob, UnavailableBlob, ThrowingBlob, UnparsableBlob}
          => AllHaveTasks(storage')
     /\ (last'.op \in {"nlpOk", "ingestOk"} /\ last'.raw = <<>>)
          => (history' = history /\ storage' = storage)]_vars

\* C14: whenever the phase is Failed, errorMessage is a non-empty text,
\* whichever call failed and whatever the failed answer carried (a detail,
\* no detail, no JSON at all, or no answer).
C14_FailedHasMessage ==
  state.status = "error" => state.errorMessage \notin {NullMessage, ""}

\* the extraction answered with a failure that carried no detail
C14_Witness ==
  /\ last.op = "nlpFail"
  /\ state.status = "error"
  /\ state.errorMessage = nlpRequestError([kind |-> "nodetail", text |-> ""])

FailedHaveError(results) ==
  \A i \in 1..Len(results) :
    ~results[i].success => (results[i].error # Undefined /\ Trim(results[i].error) # <<>>)

\* C15: every result with success false that the sync produces, in the
\* route and in RunState, carries a non-empty error text, whether the
\* tracker rejected the task, the call timed out or threw, or the task had
\* no usable summary.
C15_FailedResultHasError ==
  /\ FailedHaveError(state.jiraResults)
  /\ \A k \in 1..MaxSyncs : FailedHaveError(syncs[k].results)

\* a task without summary and a timed-out call: two failed results
C15_Witness ==
  /\ last.op = "syncResponse"
  /\ last.outcomes = <<"invalid", "timeout">>
  /\ Len(state.jiraResults) = 2
  /\ ~hasSuccess(state.jiraResults)

ResultFieldsConsistent(results) ==
  \A i \in 1..Len(results) :
    /\ (results[i].issueKey # Undefined \/ results[i].issueUrl # Undefined) => results[i].success
    /\ results[i].error # Undefined => ~results[i].success
    /\ ~(results[i].issueKey # Undefined /\ results[i].error # Undefined)

\* C16: in every result, in RunState and in the records of the history,
\* issueKey and issueUrl are present only with success true, error only
\* with success false, and issueKey and error never together.
C16_ResultFieldsConsistent ==
  /\ ResultFieldsConsistent(state.jiraResults)
  /\ \A k \in 1..MaxSyncs : ResultFieldsConsistent(syncs[k].results)
  /\ \A i \in 1..Len(history) :
       history[i].jiraResults # UndefinedList => ResultFieldsConsistent(history[i].jiraResults)

\* C17 as stated: errorMessage is non-null only when the phase is Failed.
C17_MessageOnlyWhenFailed ==
  state.errorMessage # NullMessage => state.status = "error"

\* C17 amended: errorMessage is non-null only when the phase is Failed, or
\* Done after a sync that created no issue (every task failed, or the
\* configuration was rejected).
C17_MessageOnlyWhenFailedOrDoneWithErrors ==
  state.errorMessage # NullMessage =>
    \/ state.status = "error"
    \/ state.status = "done" /\ ~hasSuccess(state.jiraResults)

\* every task failed: the phase is Done and errorMessage is set
C17_Witness ==
  /\ state.status = "done"
  /\ state.errorMessage = PartialFailureMessage
  /\ Len(state.jiraResults) = 1
  /\ ~state.jiraResults[1].success

\* C18: submitSync called in a phase other than Ready sends no request and
\* does not move the phase to SyncingTracker.
C18_SubmitOnlyInReady ==
  [][(last'.op \in SubmitOps /\ state.status # "ready")
       => /\ apiCalls' = apiCalls
          /\ trackerCalls' = trackerCalls
          /\ state'.status # "submittingJira"]_vars

\* C19: within one sync at most one tracker request is in flight, it is the
\* request for the task after the last recorded result, and the results
\* recorded so far are those of the first tasks, in task order (each carries
\* the summary of its task, "" for a summary that is null).
C19_TrackerRequestsSequential ==
  \A k \in 1..MaxSyncs :
    /\ Cardinality(syncs[k].inFlight) <= 1
    /\ \A i \in syncs[k].inFlight : i = Len(syncs[k].results) + 1
    /\ Len(syncs[k].results) <= Len(syncs[k].tasks)
    /\ \A i \in 1..Len(syncs[k].results) :
         syncs[k].results[i].summary = OrElse(syncs[k].tasks[i].summary, <<>>)

\* the result of the first task is recorded and the request for the second
\* is in flight
C19_Witness ==
  \E k \in 1..MaxSyncs :
    /\ Len(syncs[k].tasks) = 2
    /\ Len(syncs[k].results) = 1
    /\ syncs[k].inFlight = {2}

\* what the caller of the client and the observer of RunState see after a
\* 502 answer of the transcription service
RemoteStatusKind == transcribeAudioFile("status").name

RemoteStatusMessage ==
  whisperRequestError(WhisperRouteResponse(transcribeAudioFile("status")))

\* C20: a transcription that timed out gives an error whose kind differs
\* from the kind of the error for a 502 answer, and RunState tells the two
\* apart.
C20_TimeoutKindDiffers ==
  (last.op = "whisperFail" /\ last.cause = "timeout") =>
    /\ last.kind # RemoteStatusKind
    /\ state.errorMessage # RemoteStatusMessage

\* the sync call that ends in this step
EndingSync(k) == syncs[k].pc # "none" /\ syncs'[k].pc = "none"

\* C21: a failing localStorage (absent, throwing, or holding unparsable
\* text) never stops a History Store operation: load gives the empty
\* history, upsert and patch give the computed history, clear empties it,
\* a run whose record cannot be written still ends Ready and its sync Done.
C21_StorageFailureIsSwallowed ==
  [][(storage \in {UnavailableBlob, ThrowingBlob, UnparsableBlob}) =>
     (/\ last'.op = "mount" => history' = <<>>
      /\ RecordCreated
           => /\ state'.status = "ready"
              /\ Len(history') >= 1
              /\ history'[1].id = clock
              /\ SameKey(history'[1], NewKey)
              /\ Tail(history') = WithoutKey(history, NewKey)
              /\ activeMeetingId' = clock
      /\ last'.op = "syncResponse"
           => /\ state'.status = "done"
              /\ \A k \in 1..MaxSyncs, i \in 1..Len(history) :
                   (EndingSync(k) /\ history[i].id = syncs[k].activeId)
                     => /\ Len(history') = Len(history)
                        /\ history'[i].jiraResults = sanitiseJiraResults(syncs[k].results)
      /\ last'.op = "clearHistory" => (history' = <<>> /\ activeMeetingId' = NoId)
      /\ storage \in {UnavailableBlob, ThrowingBlob} => storage' = storage)]_vars

\* localStorage throws on every access, and a run was recorded in the
\* history, synced, and its record patched with the result
C21_Witness ==
  /\ storage = ThrowingBlob
  /\ last.op = "syncResponse"
  /\ state.status = "done"
  /\ Len(history) = 1
  /\ history[1].jiraResults # UndefinedList
  /\ history[1].id = activeMeetingId

\* C22: reset leaves the history as it is, in memory and in localStorage,
\* whatever the phase it is called in.
C22_ResetKeepsHistory ==
  [][last'.op = "reset" => (history' = history /\ storage' = storage)]_vars

\* reset was called during a transcription while the history held the
\* record of an earlier run
C22_Witness ==
  /\ last.op = "reset"
  /\ \E r \in 1..MaxStarts : runs[r].pc = "whisper"
  /\ Len(history) = 1
  /\ storage = history
  /\ activeMeetingId = NoId

\* the results the history holds for the record with this id
RecordedResults(list, id) ==
  {list[i].jiraResults : i \in {j \in 1..Len(list) : list[j].id = id}}

\* C23 as stated: after each completed submitToJira call the results of that
\* call, one per task and as the route returned them, are what RunState
\* holds and what the record the call works on holds.
C23_ResultsReplacedAsReturned ==
  [][\A k \in 1..MaxSyncs :
       (last'.op = "syncResponse" /\ EndingSync(k))
         => /\ state'.jiraResults = syncs[k].results
            /\ Len(state'.jiraResults) = Len(syncs[k].tasks)
            /\ RecordedResults(history', syncs[k].activeId) \subseteq {syncs[k].results}]_vars

\* C23: after each submitToJira call that ran the loop over its tasks,
\* RunState.jiraResults is exactly the results of that call, one per task of
\* the call, and the record the call works on holds the sanitised form of
\* those results; in both places the results of an earlier call are
\* replaced, never added to.  A call whose configuration is rejected leaves
\* RunState without results and the record as it was.
C23_ResultsReplaced ==
  [][\A k \in 1..MaxSyncs :
       /\ (last'.op = "syncResponse" /\ EndingSync(k))
            => /\ state'.jiraResults = syncs[k].results
               /\ Len(state'.jiraResults) = Len(syncs[k].tasks)
               /\ RecordedResults(history', syncs[k].activeId)
                    \subseteq {sanitiseJiraResults(syncs[k].results)}
       /\ (last'.op = "syncRejected" /\ EndingSync(k))
            => (state'.jiraResults = <<>> /\ history' = history)]_vars

\* a second call on the synced meeting has ended with the tracker refusing
\* the task: the failed result stands alone in RunState and in the record
C23_Witness ==
  /\ last.op = "syncResponse"
  /\ starts = 0
  /\ state.tasks = SyncedTasks
  /\ Len(state.jiraResults) = 1
  /\ ~state.jiraResults[1].success
  /\ Len(history) = 1
  /\ history[1].id = activeMeetingId
  /\ history[1].jiraResults = sanitiseJiraResults(state.jiraResults)
  /\ history[1].jiraResults # SyncedHistory[1].jiraResults

\* C24: patching the results of a record returns a history of the same
\* length and order; the record with the given id becomes the sanitised
\* result of the updater and keeps its id, createdAt, source, transcript and
\* tasks; every other record is unchanged, and so is the whole history when
\* no record has that id.
C24_PatchTouchesOneRecord ==
  [][\A k \in 1..MaxSyncs :
       (last'.op = "syncResponse" /\ EndingSync(k))
         => /\ Len(history') = Len(history)
            /\ \A i \in 1..Len(history) :
                 IF history[i].id # syncs[k].activeId
                 THEN history'[i] = history[i]
                 ELSE /\ history'[i] = sanitiseMeetingSummary(
                                          [history[i] EXCEPT !.jiraResults = syncs[k].results])
                      /\ history'[i].id = history[i].id
                      /\ history'[i].createdAt = history[i].createdAt
                      /\ history'[i].source = history[i].source
                      /\ history'[i].transcript = history[i].transcript
                      /\ history'[i].tasks = history[i].tasks
            /\ (\A i \in 1..Len(history) : history[i].id # syncs[k].activeId)
                 => history' = history]_vars

\* a call made on the first meeting ended after a second meeting had been
\* recorded: the second of the two records was patched, the first was not
C24_Witness ==
  /\ last.op = "syncResponse"
  /\ Len(history) = 2
  /\ history[1].id = 2
  /\ history[1].jiraResults = UndefinedList
  /\ history[2] = [SyncedHistory[1] EXCEPT !.jiraResults = sanitiseJiraResults(state.jiraResults)]
  /\ ~state.jiraResults[1].success

\* a call ended whose record had been cleared from the history meanwhile:
\* the record of the later meeting is all the history holds, unpatched
C24_WitnessUnknownId ==
  /\ last.op = "syncResponse"
  /\ sanitiseJiraResults(state.jiraResults) # UndefinedList
  /\ Len(history) = 1
  /\ history[1].id = 2
  /\ history[1].jiraResults = UndefinedList

\* the answer that ended the step was a failure of the attempt
AttemptFailed == last'.op = "extractAnswer" /\ last'.kind # "ok"

\* C25: an invocation of extractTasks sends at most RETRY_COUNT + 1
\* requests (3 with the default of 2); a request after the first is sent
\* only when the one before has failed (timeout, non-success status,
\* unreadable body, failed connection); the first answer that succeeds ends
\* the invocation, which returns the tasks of that answer and sends nothing
\* more.
C25_RetriesBounded ==
  [][\A r \in 1..MaxStarts :
       /\ runs'[r].kind = "extract"
            => /\ ~runs'[r].retry.nan => runs'[r].calls <= runs'[r].retry.n + 1
               /\ runs'[r].retry = [nan |-> FALSE, n |-> RETRY_COUNT]
                    => runs'[r].calls <= 3
       /\ (runs[r].pc = "awaiting" /\ runs'[r].calls > runs[r].calls)
            => (AttemptFailed /\ runs'[r].calls = runs[r].calls + 1
                /\ runs'[r].pc = "awaiting")
       /\ (runs[r].pc = "awaiting" /\ runs'[r] # runs[r] /\ last'.kind = "ok")
            => /\ runs'[r].pc = "returned"
               /\ runs'[r].result = extractTasks(last'.raw)
               /\ runs'[r].calls = runs[r].calls
       /\ runs[r].pc \in {"returned", "threw"} => runs'[r] = runs[r]]_vars

\* the third request of an invocation was answered with a task, after a
\* timeout and a non-success status
C25_Witness ==
  \E r \in 1..MaxStarts :
    /\ runs[r].pc = "returned"
    /\ runs[r].retry = [nan |-> FALSE, n |-> RETRY_COUNT]
    /\ runs[r].calls = RETRY_COUNT + 1
    /\ runs[r].lastError.name = "NLPServiceError"
    /\ Len(runs[r].result) = 1
    /\ runs[r].result[1].labels = <<>>

\* C26: when every attempt of an invocation has failed, extractTasks
\* returns no task list and throws: the error of the last attempt when that
\* is an NLPServiceError (with the status code of a non-success answer,
\* without a status after a timeout), the generic connectivity
\* NLPServiceError otherwise.  It returns only after an answer that
\* succeeded.
C26_ExhaustedRetriesThrow ==
  \A r \in 1..MaxStarts :
    /\ runs[r].pc = "threw"
         => /\ runs[r].calls > 0 => runs[r].calls = runs[r].retry.n + 1
            /\ runs[r].result = UndefinedList
            /\ runs[r].thrown.name = "NLPServiceError"
            /\ runs[r].lastError.name = "NLPServiceError"
                 => runs[r].thrown = runs[r].lastError
            /\ runs[r].answer = "status"
                 => runs[r].thrown.status \in {500, 503}
            /\ runs[r].answer = "timeout"
                 => runs[r].thrown = NLPServiceError("NLP service response timed out", NoStatus)
            /\ runs[r].answer \in {"network", "unreadable"}
                 => runs[r].thrown = NLPServiceError("could not reach the NLP service", NoStatus)
    /\ runs[r].pc = "returned" => (runs[r].answer = "ok" /\ runs[r].thrown = NoError)
    /\ runs[r].pc = "awaiting" => (runs[r].result = UndefinedList /\ runs[r].thrown = NoError)

\* an invocation has thrown the error of its last attempt, a 503, and
\* another one the generic error after a failed connection
C26_Witness ==
  \E r, q \in 1..MaxStarts :
    /\ runs[r].pc = "threw" /\ runs[r].thrown.status = 503
    /\ runs[q].pc = "threw" /\ runs[q].answer = "network"
    /\ runs[q].thrown.message = "could not reach the NLP service"

\* the faults of a normalised configuration
FaultyConfig(config) ==
  \/ config.baseUrl = <<>>
  \/ ~UrlParses(config.baseUrl)
  \/ config.email = <<>>
  \/ config.token = <<>>
  \/ ~MatchesKeyPattern(config.projectKey)

ValidationMessages ==
  {"Jira base URL is required", "invalid Jira base URL", "Jira user e-mail is required",
   "Jira API token is required", "Jira project key is required",
   "Jira project key must contain only Latin capital letters and digits"}

\* C27: a request whose configuration, once normalised, has an empty or
\* malformed baseUrl, an empty e-mail, an empty token or a project key not
\* matching ^[A-Z][A-Z0-9]*$ is answered with a validation message: no
\* request goes to the tracker, no task is attempted, no result is produced
\* and the record is left alone.
C27_FaultyConfigRejected ==
  [][\A k \in 1..MaxSyncs :
       (/\ syncs[k].pc = "request" /\ syncs'[k].pc # "request"
        /\ last'.op # "syncFetchFail"
        /\ FaultyConfig(sanitizeJiraConfig(syncs[k].config)))
         => /\ last'.op = "syncRejected"
            /\ last'.msg \in ValidationMessages
            /\ state'.errorMessage = last'.msg
            /\ state'.jiraResults = <<>>
            /\ syncs'[k] = NoSync
            /\ trackerCalls' = trackerCalls
            /\ history' = history]_vars

\* a request with the project key "1a" was answered with the message about
\* the pattern, no request having gone to the tracker
C27_Witness ==
  /\ last.op = "syncRejected"
  /\ last.msg = "Jira project key must contain only Latin capital letters and digits"
  /\ state.status = "done"
  /\ state.errorMessage = last.msg
  /\ state.jiraResults = <<>>
  /\ trackerCalls = 0
  /\ Len(history) = 1 /\ history[1].jiraResults = UndefinedList

\* the requests of an import, in the order the route makes them
IngestOrder == <<"metadata", "download", "transcribe", "extract">>

\* the step that follows a position of an import: the route taking up the
\* request, or the success of a request of the route
AnswerOf(call) ==
  CASE call = "request" -> "ingestRouteStart"
    [] call = "metadata" -> "ingestMetadataOk"
    [] call = "download" -> "ingestFetchOk"
    [] call = "transcribe" -> "ingestTranscribeOk"
    [] OTHER -> "ingestOk"

\* C28: an import makes its requests in the order lookup of the recording,
\* download, transcription, extraction, one at a time and each only after
\* the one before has succeeded; a request that fails ends the import
\* without any later request being made.  No request is made before the
\* route has taken up the import, nor for a payload it rejects.
C28_IngestCallsInOrder ==
  [][\A r \in 1..MaxStarts :
       /\ (runs'[r].kind \in Sources /\ runs'[r].pc \in {"request", "badPayload"})
            => runs'[r].calls = <<>>
       /\ (runs'[r].kind \in Sources /\ runs'[r].pc \notin {"request", "badPayload"})
            => \E n \in 1..Len(IngestOrder) :
                 /\ runs'[r].calls = SubSeq(IngestOrder, 1, n)
                 /\ runs'[r].pc = IngestOrder[n]
       /\ (runs[r].kind \in Sources /\ runs'[r].kind \in Sources
             /\ runs'[r].pc # runs[r].pc)
            => /\ last'.op = AnswerOf(runs[r].pc)
               /\ runs'[r].pc # "badPayload"
                    => runs'[r].calls = Append(runs[r].calls, runs'[r].pc)
       /\ (runs[r].kind \in Sources /\ runs'[r].kind = "none")
            => /\ last'.op \in {"ingestFail", "ingestOk"}
               /\ last'.outcomes = runs[r].calls
               /\ last'.op = "ingestOk" => runs[r].calls = IngestOrder
               /\ (last'.op = "ingestFail" /\ runs[r].pc \notin {"request", "badPayload"})
                    => runs[r].calls[Len(runs[r].calls)] = last'.cause]_vars

\* an import ended with the transcription failing: the recording had been
\* looked up and downloaded, extraction was never called
C28_Witness ==
  /\ last.op = "ingestFail"
  /\ last.cause = "transcribe"
  /\ last.outcomes = <<"metadata", "download", "transcribe">>
  /\ state.status = "error"

\* the positions of the files of a variant
OfVariant(files, variant) == {i \in 1..Len(files) : files[i].recording_type = variant}

\* a variant is asked for
IsRequested(recordingType) == recordingType \notin {"undefined", ""}

\* the file the preference order designates in a list that is not empty
Designated(files, recordingType) ==
  IF IsRequested(recordingType) /\ OfVariant(files, recordingType) # {}
  THEN files[CHOOSE i \in OfVariant(files, recordingType) :
               \A j \in OfVariant(files, recordingType) : i <= j]
  ELSE IF OfVariant(files, "audio_only") # {}
  THEN files[CHOOSE i \in OfVariant(files, "audio_only") :
               \A j \in OfVariant(files, "audio_only") : i <= j]
  ELSE files[1]

\* C29: for every list of recording files and every requested variant,
\* selectRecordingFile returns the first file of the requested variant if
\* there is one, else the first audio-only file if there is one, else the
\* first file of the list, and null only when the list is empty.
C29_RecordingPreference ==
  [][\A r \in 1..MaxStarts :
       /\ (runs[r].pc = "metadata" /\ runs'[r].pc = "download")
            => /\ runs'[r].files # UndefinedList /\ runs'[r].files # <<>>
               /\ runs'[r].recording = Designated(runs'[r].files, runs[r].recordingType)
       /\ (runs[r].pc = "metadata" /\ last'.op = "zoomNoRecording")
            => last'.raw \in {<<>>, UndefinedList}
       /\ (runs[r].pc = "metadata" /\ runs'[r].pc = "none" /\ last'.raw = <<>>)
            => last'.op \in {"zoomNoRecording", "zoomLookupFail"}]_vars

\* the second file of the answer was chosen, being of the variant asked
\* for, although the first one is audio-only
C29_Witness ==
  \E r \in 1..MaxStarts :
    /\ runs[r].pc = "download"
    /\ runs[r].recordingType = "shared_screen_with_speaker_view"
    /\ Len(runs[r].files) = 2
    /\ runs[r].files[1].recording_type = "audio_only"
    /\ runs[r].recording = runs[r].files[2]

\* the item has a value for a field: neither null nor undefined
HasValue(value) == IsText(value)

\* a text as it is sent: nothing for a missing or empty one
Sent(value) == IF IsText(value) /\ value # <<>> THEN value ELSE Undefined

\* an assignee as it is sent: trimmed, nothing for a blank one
SentAssignee(value) ==
  IF IsText(value) /\ Trim(value) # <<>> THEN Trim(value) ELSE Undefined

\* labels as they are sent: trimmed, joined, without duplicates
SentLabels(labels) ==
  IF sanitiseLabels(labels) = <<>> THEN UndefinedTexts ELSE sanitiseLabels(labels)

\* the item's value when the toggle is on and the item has one, else the
\* default
ItemOrDefault(toggle, value, default) ==
  IF toggle = "true" /\ HasValue(value) THEN value ELSE default

AssigneeFollowsToggle(sync) ==
  sync.fields.assignee.value
    = SentAssignee(ItemOrDefault(sync.config.syncAssignee, sync.item.assignee,
                                 sync.config.defaultAssignee))

DueDateFollowsToggle(sync) ==
  sync.fields.duedate = Sent(ItemOrDefault(sync.config.syncDueDate, sync.item.due, Undefined))

PriorityFollowsToggle(sync) ==
  sync.fields.priority
    = Sent(ItemOrDefault(sync.config.syncPriority, sync.item.priority,
                         sync.config.defaultPriority))

\* C30 as stated: for each of assignee, due date, priority and labels the
\* value sent is the default when the toggle is false, and when it is true
\* the item's own value, the default being used only when the item has none.
C30_ItemValueOrDefault ==
  \A k \in 1..MaxSyncs :
    syncs[k].pc = "tracker"
      => /\ AssigneeFollowsToggle(syncs[k])
         /\ DueDateFollowsToggle(syncs[k])
         /\ PriorityFollowsToggle(syncs[k])
         /\ syncs[k].fields.labels
              = SentLabels(IF syncs[k].config.syncLabels = "true" /\ syncs[k].item.labels # <<>>
                           THEN syncs[k].item.labels
                           ELSE syncs[k].config.defaultLabels)

\* C30: for each of assignee, due date and priority the value sent is the
\* default (none for the due date) when the toggle is false, and when it is
\* true, as it is by default, the item's own value, the default being used
\* only when the item's value is null or undefined; an empty value, or a
\* blank assignee, sends nothing.  The labels sent are the default labels
\* followed, when the toggle is true, by the labels of the item, each
\* trimmed and joined, duplicates removed.
C30_ItemValueOrDefaultLabelsMerged ==
  \A k \in 1..MaxSyncs :
    syncs[k].pc = "tracker"
      => /\ AssigneeFollowsToggle(syncs[k])
         /\ DueDateFollowsToggle(syncs[k])
         /\ PriorityFollowsToggle(syncs[k])
         /\ syncs[k].fields.labels
              = SentLabels((IF syncs[k].config.defaultLabels = UndefinedTexts THEN <<>>
                            ELSE syncs[k].config.defaultLabels)
                           \o (IF syncs[k].config.syncLabels = "true"
                               THEN syncs[k].item.labels ELSE <<>>))

\* a request in flight for an item with an assignee, a priority and labels
\* under a configuration with all three defaults, assignee toggle off and
\* the other toggles on
C30_Witness ==
  \E k \in 1..MaxSyncs :
    /\ syncs[k].pc = "tracker"
    /\ syncs[k].config.syncAssignee = "false"
    /\ syncs[k].config.syncPriority = "true" /\ syncs[k].config.syncLabels = "true"
    /\ syncs[k].item.assignee = <<"bob", " ">>
    /\ syncs[k].fields.assignee = [kind |-> "emailAddress", value |-> <<"lead@example.com">>]
    /\ syncs[k].fields.priority = <<"High">>
    /\ syncs[k].config.defaultPriority = <<"Low">>
    /\ syncs[k].fields.labels = << <<"m">>, <<"team">>, <<"x", "-", "y">> >>

\* a confidence is a number of [0, 1]
WithinUnit(confidence) ==
  confidence.type = "number" /\ 0 <= confidence.tenths /\ confidence.tenths <= 10

\* C31 as stated: every ActionItem held in RunState.tasks or in a record of
\* the history has a confidence within [0, 1].
C31_ConfidenceWithinUnit ==
  /\ \A i \in 1..Len(state.tasks) : WithinUnit(state.tasks[i].confidence)
  /\ \A n \in 1..Len(history) : \A i \in 1..Len(history[n].tasks) :
       WithinUnit(history[n].tasks[i].confidence)

\* a label as sanitiseLabels turns it out: trimmed, each whitespace run
\* replaced by the join character
Joined(label) == ReplaceSpaceRuns(Trim(label))

\* the elements of a list that give a token: strings that are not blank
Usable(list) == {i \in 1..Len(list) : IsText(list[i]) /\ Trim(list[i]) # <<>>}

\* the first element of the list that gives the token
FirstGiving(list, token) ==
  CHOOSE i \in Usable(list) :
    Joined(list[i]) = token /\ \A j \in Usable(list) : Joined(list[j]) = token => i <= j

\* the tokens are those of the list: trimmed, non-empty, without
\* whitespace, without duplicates (case-sensitive), in order of first
\* occurrence
Normalised(list, tokens) ==
  IF list = UndefinedTexts THEN tokens = <<>>
  ELSE /\ \A t \in 1..Len(tokens) :
            /\ tokens[t] # <<>>
            /\ \A c \in 1..Len(tokens[t]) : tokens[t][c] # " "
            /\ \E i \in Usable(list) : Joined(list[i]) = tokens[t]
       /\ \A i \in Usable(list) : \E t \in 1..Len(tokens) : tokens[t] = Joined(list[i])
       /\ \A t \in 1..Len(tokens) : \A u \in 1..Len(tokens) :
            /\ tokens[t] = tokens[u] => t = u
            /\ t < u => FirstGiving(list, tokens[t]) < FirstGiving(list, tokens[u])

\* C32: label normalisation of any list yields tokens that are trimmed,
\* non-empty, with each internal whitespace run replaced by the join
\* character, without duplicates under case-sensitive comparison, in order
\* of first occurrence; a value that is not a list yields the empty
\* sequence.
C32_LabelsNormalised ==
  (mounted /\ history # <<>>)
    => Normalised(storage[1].tasks[1].labels, history[1].tasks[1].labels)

\* " Bug ", "bug", " Bug " were stored: "Bug" and "bug" both stay, the
\* second "Bug" is dropped
C32_Witness ==
  /\ mounted
  /\ storage # NullBlob
  /\ storage[1].tasks[1].labels = << <<" ", "Bug", " ">>, <<"bug">>, <<" ", "Bug", " ">> >>
  /\ Len(history) = 1
  /\ history[1].tasks[1].labels = << <<"Bug">>, <<"bug">> >>

\* labels that were no list were stored: the task has no labels
C32_WitnessNoList ==
  /\ mounted
  /\ storage # NullBlob
  /\ storage[1].tasks[1].labels = UndefinedTexts
  /\ Len(history) = 1
  /\ history[1].tasks[1].labels = <<>>

\* C33: whenever the active record id is set, a record with that id is in
\* the in-memory history and is its first entry, after any sequence of
\* starts, submitToJira calls, resets and clearHistory calls.
C33_ActiveRecordIsFirst ==
  activeMeetingId # NoId => (Len(history) >= 1 /\ history[1].id = activeMeetingId)

\* a second meeting was recorded in front of the synced one and is the
\* active record
C33_Witness ==
  /\ activeMeetingId = 2
  /\ Len(history) = 2
  /\ history[1].id = 2
  /\ history[2].id = 1
  /\ state.status = "ready"

\* the tasks of a record made from the tasks a run put into RunState
RecordTasks(tasks) == [i \in 1..Len(tasks) |-> sanitiseActionItem(tasks[i])]

\* C34: sync results are written only onto the record created by the run
\* whose tasks were submitted. While a submitToJira call is in flight, the
\* record its captured id names (if any is left) is the one made from the
\* tasks it sends; the step that ends the call changes no other record; and
\* the tasks on show are those of the active record, so a run that failed or
\* extracted nothing leaves nothing to submit against an earlier record.
C34_ResultsOnOwnRecord ==
  [][/\ \A k \in 1..MaxSyncs :
          syncs[k].pc # "none"
            => \A i \in 1..Len(history) :
                 history[i].id = syncs[k].activeId
                   => history[i].tasks = RecordTasks(syncs[k].tasks)
     /\ last'.op = "syncResponse"
          => /\ Len(history') = Len(history)
             /\ \A i \in 1..Len(history) :
                  history'[i] # history[i]
                    => /\ history[i].tasks = RecordTasks(last'.raw)
                       /\ history'[i].tasks = history[i].tasks
                       /\ history'[i].id = history[i].id
     /\ (Len(state.tasks) > 0 /\ activeMeetingId # NoId)
          => /\ Len(history) >= 1
             /\ history[1].id = activeMeetingId
             /\ history[1].tasks = RecordTasks(state.tasks)]_vars

\* a call made on the first meeting ended after a second run had put its own
\* record in front: the results went onto the second place of the history
C34_Witness ==
  /\ last.op = "syncResponse"
  /\ Len(history) = 2
  /\ activeMeetingId = 2
  /\ history[1].tasks # history[2].tasks
  /\ history[1].jiraResults = UndefinedList
  /\ history[2].tasks = RecordTasks(last.raw)
  /\ history[2].jiraResults # UndefinedList
  /\ history[2].jiraResults # SyncedResults

\* a run that extracted nothing ended on the first meeting's record still
\* active, and submitToJira found nothing to send
C34_WitnessNoTasks ==
  /\ last.op = "submitEmpty"
  /\ starts >= 1
  /\ activeMeetingId = 1
  /\ Len(state.tasks) = 0
  /\ state.transcript = <<"t">>
  /\ history = SyncedHistory

\* C35: with a working storage and this hook as its only writer, after the
\* initial load and after every create/upsert, patch and clear, loading what
\* localStorage holds gives exactly the in-memory history: the same records
\* in the same order.
C35_StoredIsHistory ==
  (mounted /\ storage \notin {UnavailableBlob, ThrowingBlob})
    => loadMeetingHistory(storage) = history

\* ten stored records were loaded, an eleventh meeting was recorded in front
\* of them and its results were patched in
C35_Witness ==
  /\ mounted
  /\ last.op = "syncResponse"
  /\ storage \notin {NullBlob, UnavailableBlob, ThrowingBlob, UnparsableBlob}
  /\ Len(history) = HISTORY_LIMIT
  /\ history[1].id = HISTORY_LIMIT + 1
  /\ history[1].jiraResults # UndefinedList
  /\ history[HISTORY_LIMIT].id = 2

\* the loaded history was cleared
C35_WitnessCleared ==
  /\ mounted
  /\ last.op = "clearHistory"
  /\ clock = HISTORY_LIMIT + 1
  /\ storage = NullBlob
  /\ history = <<>>

\* C36: in every reachable RunState of a single run, transcript is non-null
\* whenever the phase is Extracting, Ready, SyncingTracker or Done; tasks is
\* empty whenever the phase is Idle, Uploading, Transcribing or Extracting;
\* and syncResults is non-empty only when the phase is Done.
C36_RunStateFields ==
  starts <= 1
    => /\ state.status \in {"extracting", "ready", "submittingJira", "done"}
            => state.transcript # Null
       /\ state.status \in {"idle", "uploading", "transcribing", "extracting"}
            => state.tasks = <<>>
       /\ state.jiraResults # <<>> => state.status = "done"

\* C37: sanitising a record is idempotent.  For every record found in
\* localStorage, well-formed or not, sanitising gives a record, sanitising
\* that record again returns it unchanged (id, createdAt, transcriptPreview,
\* tasks, metadata and jiraResults included), and its preview has at most
\* 280 characters plus the marker; every record of the in-memory history is
\* a fixed point.  Hence an upsert leaves the records behind the new one as
\* they were, and a patch changes at most the record with the captured id.
C37_SanitiseIdempotent ==
  [][/\ \A i \in 1..Len(StoredRecords) :
          LET once == sanitiseMeetingSummary(StoredRecords[i])
          IN /\ "threw" \notin DOMAIN once
             /\ "threw" \in DOMAIN once
                  \/ /\ sanitiseMeetingSummary(once) = once
                     /\ Len(once.transcriptPreview) <= PREVIEW_LIMIT + 1
     /\ \A i \in 1..Len(history) : sanitiseMeetingSummary(history[i]) = history[i]
     /\ (last'.op \in {"nlpOk", "ingestExtractOk"} /\ history' # history)
          => \A i \in 2..Len(history') :
               \E j \in 1..Len(history) : history'[i] = history[j]
     /\ \A k \in 1..MaxSyncs :
          (last'.op = "syncResponse" /\ EndingSync(k))
            => /\ Len(history') = Len(history)
               /\ \A i \in 1..Len(history) :
                    history[i].id # syncs[k].activeId => history'[i] = history[i]]_vars

\* C38: for every configured retry count (0, a negative number and a text
\* that is no number included) the extraction client sends at least one
\* request before it reports failure.
C38_FailsOnlyAfterACall ==
  \A r \in 1..MaxStarts :
    (runs[r].kind = "extract" /\ runs[r].pc = "threw") => runs[r].calls >= 1

\* an event of the invocation in slot r has been delivered
Delivered(run) == run.errorEmitted \/ run.closeEmitted \/ run.timer = "fired"

\* C39: runWhisperCpp settles exactly once under every interleaving of the
\* child's error event, its close event and the timer.  It calls resolve or
\* reject at most once, and exactly once as soon as one of the events has
\* been delivered; it resolves only when the first event delivered is a
\* close with exit code 0 and rejects otherwise; the timer's callback kills
\* the child; an event delivered after the settlement changes neither the
\* settlement nor the flag, and no timer is pending once the call has
\* settled.
C39_SettlesOnce ==
  [][\A r \in 1..MaxStarts :
       /\ runs'[r].kind = "whispercpp"
            => /\ Len(runs'[r].settles) <= 1
               /\ Delivered(runs'[r]) <=> Len(runs'[r].settles) = 1
               /\ runs'[r].completed <=> Len(runs'[r].settles) = 1
               /\ runs'[r].completed => runs'[r].timer # "pending"
       /\ (runs[r].kind = "whispercpp" /\ runs'[r] # runs[r] /\ ~Delivered(runs[r]))
            => runs'[r].settles =
                 <<IF last'.op = "childClose" /\ last'.cause = "0" THEN "resolve"
                   ELSE IF last'.op = "childClose" THEN "exited with code"
                   ELSE IF last'.op = "childError" THEN "failed to start"
                   ELSE "timed out">>
       /\ (runs[r].kind = "whispercpp" /\ runs'[r] # runs[r] /\ last'.op = "timerFire")
            => runs'[r].killed
       /\ (runs[r].kind = "whispercpp" /\ runs[r].completed)
            => /\ runs'[r].settles = runs[r].settles
               /\ runs'[r].completed
               /\ runs'[r].timer = runs[r].timer
               /\ runs'[r].timeoutHandle = runs[r].timeoutHandle]_vars

\* the timer fired first and killed the child; the close of the killed child
\* and an error event arrived afterwards, and the one rejection stayed
C39_Witness ==
  \E r \in 1..MaxStarts :
    /\ runs[r].kind = "whispercpp"
    /\ runs[r].settles = <<"timed out">>
    /\ runs[r].killed
    /\ runs[r].closeEmitted /\ runs[r].errorEmitted
    /\ runs[r].timer = "fired"

\* the child closed with code 0 first: the call resolved, the timer was
\* cleared, and a late error event changed nothing
C39_WitnessResolved ==
  \E r \in 1..MaxStarts :
    /\ runs[r].kind = "whispercpp"
    /\ runs[r].settles = <<"resolve">>
    /\ runs[r].timer = "cleared"
    /\ ~runs[r].timeoutHandle
    /\ runs[r].errorEmitted
    /\ ~runs[r].killed

====
